---- MODULE Spec2Model ----
(***************************************************************************)
(* A model of the TLV FRAM store (src/src/tlv_core.c, src/src/tlv_index.c, *)
(* configuration of src/unnamed/part_007, types of src/unnamed/part_004).  *)
(*                                                                         *)
(* The media is modelled in four parts: the persisted system header, the   *)
(* persisted index table, the data region (one cell per byte) and the      *)
(* backup region.  A CRC is modelled as collision free: the stored         *)
(* checksum is the content it was computed over.                           *)
(*                                                                         *)
(* Every API function is an operator from a context record to a context    *)
(* record and a return code; the actions apply one API call each.  The     *)
(* context record threads a count n of the port calls made so far in the   *)
(* call, and f, the number of the port call that fails (0: none).          *)
(***************************************************************************)
EXTENDS Integers, Sequences, FiniteSets, TLC

\* ---------------------------------------------------------------- bounds
\* Size of the data region in bytes (TLV_BACKUP_ADDR - TLV_DATA_ADDR), scaled:
\* five blocks of the schema's payloads fill it, four leave room for one.
RegionSize == 88
\* Number of transport faults the environment may inject in a run.
MaxFaults == 1
\* Port calls of an API call that may fail: the first MaxFaultAt.
MaxFaultAt == 8
\* Number of API calls explored from the initial state of each specification.
BootOps == 4
MaxOps == 6
FaultOps == 4
RecoverOps == 4
StreamOps == 4
CompactOps == 4
\* Calls in a run of the store taken out of service.
GateOps == 4
\* Calls in a run on a store written by the firmware before.
MigrateOps == 3
\* Calls in a run that watches the error ledger.
LedgerOps == 3
\* Calls in a run on a store whose index may be full.
FullOps == 2
\* Calls in a run that mixes tlv_write and the maintenance calls with write
\* sessions.
MixedOps == 3
\* Width of the 32-bit header scalars, scaled to what TLC's integers allow.
WordMod == 16777216

\* ------------------------------------------------------- configuration
TLV_MAX_TAG_COUNT == 3
TLV_AUTO_DEFRAG_THRESHOLD == 20
TLV_BUFFER_SIZE == 512
TLV_HEADER_ADDR == 0
TLV_INDEX_ADDR == 512
TLV_DATA_ADDR == 4096
TLV_BACKUP_ADDR == TLV_DATA_ADDR + RegionSize
\* size of the mirrored management area (static assert of tlv_types.h)
TLV_DATA_REGION_SIZE == TLV_DATA_ADDR - TLV_HEADER_ADDR
TLV_SYSTEM_VERSION == 256
DEFAULT_TLV_SYSTEM_MAGIC == 1414284870
WRGV_TLV_SYSTEM_MAGIC == 1465009750
TLV_SYSTEM_MAGIC == DEFAULT_TLV_SYSTEM_MAGIC

TLV_OK == 0
TLV_ERROR == -1
TLV_ERROR_INVALID_PARAM == -2
TLV_ERROR_NO_BUFFER_MEMORY == -3
TLV_ERROR_NOT_FOUND == -4
TLV_ERROR_CRC_FAILED == -5
TLV_ERROR_VERSION == -6
TLV_ERROR_NO_MEMORY_SPACE == -7
TLV_ERROR_NO_INDEX_SPACE == -8
TLV_ERROR_CORRUPTED == -9

TLV_FLAG_VALID == 1
TLV_FLAG_DIRTY == 2

TLV_STATE_UNINITIALIZED == 0
TLV_STATE_INITIALIZED == 1
TLV_STATE_ERROR == 2
TLV_STATE_FORMATTED == 3

TLV_INIT_FIRST_BOOT == 0
TLV_INIT_OK == 1
TLV_INIT_RECOVERED == 2
TLV_INIT_ERROR == 3

SystemHeaderSize == 256
BlockHeaderSize == 14
IndexEntrySize == 8
CrcSize == 2
\* margin added to max_length in is_tag_region_valid / tlv_index_add
RegionMargin == 20

\* The stream constants and the two stream error codes.
TLV_MAX_STREAM_HANDLES == 2
TLV_STREAM_MAGIC == 1398035021
TLV_STREAM_INVALID_HANDLE == 0
TLV_STREAM_STATE_IDLE == 0
TLV_STREAM_STATE_WRITING == 1
TLV_STREAM_STATE_READING == 2
TLV_ERROR_INVALID_HANDLE == -10
TLV_ERROR_INVALID_STATE == -11

TAG_SYSTEM_CONFIG == 4097
TAG_SYSTEM_CALIBRATION == 4098
TAG_SYSTEM_SERIAL_NUMBER == 4099

\* The schema, scaled: two tags of TLV_META_MAP with small max_length.  It is
\* the schema of a firmware whose records are at version 2: the system
\* configuration comes with its migration function (migrate: TRUE), the
\* calibration record and the serial number with none (NULL).  A store
\* written by the firmware before it carries version 1.
TLV_META_MAP ==
  <<[tag |-> TAG_SYSTEM_CONFIG, max_length |-> 2, version |-> 2, migrate |-> TRUE],
    [tag |-> TAG_SYSTEM_CALIBRATION, max_length |-> 2, version |-> 2, migrate |-> FALSE],
    [tag |-> TAG_SYSTEM_SERIAL_NUMBER, max_length |-> 2, version |-> 2, migrate |-> FALSE]>>
TLV_META_MAP_SIZE == Len(TLV_META_MAP)
\* The tags the callers of the runs use; the serial number is only found on
\* stores that carry it from the start (StoresFull).
SchemaTags == {TAG_SYSTEM_CONFIG, TAG_SYSTEM_CALIBRATION}
MetaTags == {TLV_META_MAP[i].tag : i \in 1..TLV_META_MAP_SIZE}

\* get_meta / find_meta_by_tag: the schema entry of a tag, or NoMeta.
NoMeta == [tag |-> 0, max_length |-> 0, version |-> 0, migrate |-> FALSE]
get_meta(tag) ==
  IF \E i \in 1..TLV_META_MAP_SIZE : TLV_META_MAP[i].tag = tag
  THEN TLV_META_MAP[CHOOSE i \in 1..TLV_META_MAP_SIZE : TLV_META_MAP[i].tag = tag]
  ELSE NoMeta

TLV_BLOCK_SIZE(dataLen) == BlockHeaderSize + dataLen + CrcSize
TLV_IS_VALID_ADDR(addr) == addr >= TLV_DATA_ADDR /\ addr < TLV_BACKUP_ADDR
TLV_IS_SIZE_SAFE(addr, size) == addr >= TLV_DATA_ADDR /\ addr + size <= TLV_BACKUP_ADDR
TLV_REGIONS_OVERLAP(start1, size1, start2, size2) ==
  \/ (start1 <= start2 /\ start2 < start1 + size1)
  \/ (start2 <= start1 /\ start1 < start2 + size2)

\* unsigned arithmetic of the header scalars
Add32(a, b) == (a + b) % WordMod
Sub32(a, b) == (a - b + WordMod) % WordMod

\* ----------------------------------------------------------- flag bits
HasValid(flags) == flags % 2 = 1
HasDirty(flags) == (flags \div 2) % 2 = 1
SetValid(flags) == IF HasValid(flags) THEN flags ELSE flags + TLV_FLAG_VALID
ClearDirty(flags) == IF HasDirty(flags) THEN flags - TLV_FLAG_DIRTY ELSE flags

\* ------------------------------------------------------ RAM structures
ZeroHeader ==
  [magic |-> 0, version |-> 0, tag_count |-> 0, data_region_start |-> 0,
   data_region_size |-> 0, next_free_addr |-> 0, total_writes |-> 0,
   last_update_time |-> 0, free_space |-> 0, used_space |-> 0,
   fragment_count |-> 0, fragment_size |-> 0]
ZeroEntry == [tag |-> 0, flags |-> 0, version |-> 0, data_addr |-> 0]
ZeroIndex == [i \in 1..TLV_MAX_TAG_COUNT |-> ZeroEntry]
ZeroSnapshot ==
  [next_free_addr |-> 0, used_space |-> 0, free_space |-> 0,
   fragment_count |-> 0, fragment_size |-> 0, tag_count |-> 0, is_active |-> FALSE]

\* -------------------------------------------------------------- media
\* A persisted header/index is its content and the content its CRC was
\* computed over; the CRC matches when the two are equal.
NoHeaderCrc == [ZeroHeader EXCEPT !.magic = -1]
BlankHeader == [h |-> ZeroHeader, crc |-> NoHeaderCrc]
BlankIndexT == [ent |-> ZeroIndex, crc |-> <<>>]
\* One cell per byte of the data region: k is the kind of byte ("Z" never
\* written, "H" block header, "D" payload, "C" block CRC), v the content the
\* byte belongs to and i the offset of the byte in that content.
BlankCell == [k |-> "Z", v |-> <<>>, i |-> 0]
DataAddrs == TLV_DATA_ADDR .. (TLV_BACKUP_ADDR - 1)
BlankFram ==
  [hdr |-> BlankHeader, idx |-> BlankIndexT,
   data |-> [a \in DataAddrs |-> BlankCell],
   bak |-> [hdr |-> BlankHeader, idx |-> BlankIndexT]]

\* budget is the number of API calls and of transport faults still explored.
VARIABLES state, ptrs, header, index, snapshot, fram, streams, g_last_error,
          budget, last, hist, backed
vars ==
  <<state, ptrs, header, index, snapshot, fram, streams, g_last_error, budget, last, hist,
    backed>>

\* ------------------------------------------------------------ the port
\* The code every failing port call returns (any value other than TLV_OK).
PORT_ERROR == TLV_ERROR
\* The next port call of the running API call is the one that fails (plan
\* f > 0: the f-th call), or the power is gone (plan f < 0: from the -f-th
\* call on no port call reaches the media).
PortFails(c) == c.f = c.n + 1 \/ (c.f < 0 /\ c.n + 1 >= -c.f)
PortTick(c) == [c EXCEPT !.n = c.n + 1]

Min(a, b) == IF a < b THEN a ELSE b
CellAt(fr, a) == IF a \in DataAddrs THEN fr.data[a] ELSE BlankCell

\* tlv_port_fram_write of a run of cells at addr.  Bytes that fall in the
\* data region replace its cells; bytes that fall on the persisted header or
\* index table leave a structure whose CRC no longer matches.
IndexTableSize == IndexEntrySize * TLV_MAX_TAG_COUNT + CrcSize
Hits(addr, len, start, size) == len > 0 /\ addr < start + size /\ start < addr + len
WriteCells(fr, addr, cells) ==
  LET len == Len(cells) IN
  [fr EXCEPT
     !.data = [a \in DataAddrs |->
                 IF a >= addr /\ a < addr + len THEN cells[a - addr + 1] ELSE fr.data[a]],
     !.hdr = IF Hits(addr, len, TLV_HEADER_ADDR, SystemHeaderSize)
             THEN [fr.hdr EXCEPT !.crc = NoHeaderCrc] ELSE fr.hdr,
     !.idx = IF Hits(addr, len, TLV_INDEX_ADDR, IndexTableSize)
             THEN [fr.idx EXCEPT !.crc = <<>>] ELSE fr.idx]

\* --------------------------------------------------------- tlv_index.c
tlv_index_init(c) ==
  [c |-> [c EXCEPT !.ptrs = TRUE, !.header = ZeroHeader, !.index = ZeroIndex],
   ret |-> TLV_OK]

tlv_index_deinit(c) == [c EXCEPT !.ptrs = FALSE]

tlv_index_load(c) ==
  IF ~c.ptrs THEN [c |-> c, ret |-> TLV_ERROR_INVALID_PARAM]
  ELSE IF PortFails(c) THEN [c |-> PortTick(c), ret |-> PORT_ERROR]
  ELSE [c |-> [PortTick(c) EXCEPT !.index = c.fram.idx.ent],
        ret |-> IF c.fram.idx.crc = c.fram.idx.ent THEN TLV_OK ELSE TLV_ERROR_CRC_FAILED]

tlv_index_save(c) ==
  IF ~c.ptrs THEN [c |-> c, ret |-> TLV_ERROR_INVALID_PARAM]
  ELSE IF PortFails(c) THEN [c |-> PortTick(c), ret |-> PORT_ERROR]
  ELSE [c |-> [PortTick(c) EXCEPT !.fram.idx = [ent |-> c.index, crc |-> c.index]],
        ret |-> TLV_OK]

\* Slot (1..TLV_MAX_TAG_COUNT) of the first valid entry of tag, 0 for NULL.
tlv_index_find(c, tag) ==
  LET hit == {i \in 1..TLV_MAX_TAG_COUNT : c.index[i].tag = tag /\ HasValid(c.index[i].flags)} IN
  IF ~c.ptrs \/ tag = 0 \/ hit = {} THEN 0
  ELSE CHOOSE i \in hit : \A j \in hit : i <= j

\* Slot of the first entry whose tag is 0, 0 for NULL.
tlv_index_find_free_slot(c) ==
  LET free == {i \in 1..TLV_MAX_TAG_COUNT : c.index[i].tag = 0} IN
  IF ~c.ptrs \/ free = {} THEN 0
  ELSE CHOOSE i \in free : \A j \in free : i <= j

is_tag_region_valid(tag, addr, size) ==
  /\ TLV_IS_VALID_ADDR(addr)
  /\ TLV_IS_SIZE_SAFE(addr, size)
  /\ \A i \in 1..TLV_META_MAP_SIZE :
       TLV_META_MAP[i].tag # tag =>
         ~TLV_REGIONS_OVERLAP(addr, size, TLV_DATA_ADDR,
                              TLV_META_MAP[i].max_length + RegionMargin)

\* Returns the context and the slot of the entry (0 for NULL).
tlv_index_add(c, tag, addr) ==
  LET existing == tlv_index_find(c, tag)
      entry == tlv_index_find_free_slot(c)
      meta == get_meta(tag)
  IN
  IF tag = 0 \/ ~TLV_IS_VALID_ADDR(addr) THEN [c |-> c, slot |-> 0]
  ELSE IF existing # 0
  THEN [c |-> [c EXCEPT !.index[existing].data_addr = addr,
                        !.index[existing].flags = SetValid(c.index[existing].flags)],
        slot |-> existing]
  ELSE IF entry = 0 THEN [c |-> c, slot |-> 0]
  ELSE IF meta # NoMeta /\ ~is_tag_region_valid(tag, addr, meta.max_length + RegionMargin)
  THEN [c |-> c, slot |-> 0]
  ELSE [c |-> [c EXCEPT !.index[entry] =
                          [tag |-> tag, flags |-> TLV_FLAG_VALID,
                           version |-> IF meta # NoMeta THEN meta.version ELSE 1,
                           data_addr |-> addr],
                        !.header.tag_count = c.header.tag_count + 1],
        slot |-> entry]

tlv_index_update(c, tag, addr) ==
  LET entry == tlv_index_find(c, tag)
      meta == get_meta(tag)
  IN
  IF tag = 0 \/ ~TLV_IS_VALID_ADDR(addr) THEN [c |-> c, ret |-> TLV_ERROR_INVALID_PARAM]
  ELSE IF entry = 0 THEN [c |-> c, ret |-> TLV_ERROR_NOT_FOUND]
  ELSE [c |-> [c EXCEPT !.index[entry] =
                          [tag |-> tag, data_addr |-> addr,
                           flags |-> ClearDirty(SetValid(c.index[entry].flags)),
                           version |-> IF meta # NoMeta THEN meta.version ELSE 1]],
        ret |-> TLV_OK]

tlv_index_remove(c, tag) ==
  LET entry == tlv_index_find(c, tag) IN
  IF tag = 0 THEN [c |-> c, ret |-> TLV_ERROR_INVALID_PARAM]
  ELSE IF entry = 0 THEN [c |-> c, ret |-> TLV_ERROR_NOT_FOUND]
  ELSE [c |-> [c EXCEPT !.index[entry] = ZeroEntry,
                        !.header.tag_count =
                           IF c.header.tag_count > 0 THEN c.header.tag_count - 1 ELSE 0],
        ret |-> TLV_OK]

\* ------------------------------------------------- system header (core)
\* tlv_utils.c is not part of the sources; the header states the rule:
\* the major versions must be equal.
tlv_version_compatible(current, required) == current \div 256 = required \div 256

system_header_init(c) ==
  IF ~c.ptrs THEN [c |-> c, ret |-> TLV_ERROR_INVALID_PARAM]
  ELSE [c |-> [c EXCEPT !.header =
                 [ZeroHeader EXCEPT !.magic = TLV_SYSTEM_MAGIC,
                                    !.version = TLV_SYSTEM_VERSION,
                                    !.data_region_start = TLV_DATA_ADDR,
                                    !.data_region_size = TLV_BACKUP_ADDR - TLV_DATA_ADDR,
                                    !.next_free_addr = TLV_DATA_ADDR,
                                    !.free_space = TLV_BACKUP_ADDR - TLV_DATA_ADDR]],
        ret |-> TLV_OK]

\* h is the header in RAM, crc the content its header_crc16 was computed over.
system_header_verify(h, crc) ==
  IF h.magic # TLV_SYSTEM_MAGIC THEN TLV_ERROR_CORRUPTED
  ELSE IF ~tlv_version_compatible(TLV_SYSTEM_VERSION, h.version) THEN TLV_ERROR_VERSION
  ELSE IF crc # h THEN TLV_ERROR_CRC_FAILED
  ELSE TLV_OK

system_header_load(c) ==
  IF ~c.ptrs THEN [c |-> c, ret |-> TLV_ERROR_INVALID_PARAM]
  ELSE IF PortFails(c) THEN [c |-> PortTick(c), ret |-> PORT_ERROR]
  ELSE [c |-> [PortTick(c) EXCEPT !.header = c.fram.hdr.h],
        ret |-> system_header_verify(c.fram.hdr.h, c.fram.hdr.crc)]

system_header_save(c) ==
  IF ~c.ptrs THEN [c |-> c, ret |-> TLV_ERROR_INVALID_PARAM]
  ELSE IF PortFails(c) THEN [c |-> PortTick(c), ret |-> PORT_ERROR]
  ELSE [c |-> [PortTick(c) EXCEPT !.fram.hdr = [h |-> c.header, crc |-> c.header]],
        ret |-> TLV_OK]

\* Returns the context and the address (0: no space).
allocate_space(c, size) ==
  LET addr == c.header.next_free_addr
      end_addr == TLV_DATA_ADDR + c.header.data_region_size
  IN
  IF ~c.ptrs \/ addr + size > end_addr THEN [c |-> c, addr |-> 0]
  ELSE [c |-> [c EXCEPT !.header.next_free_addr = Add32(addr, size),
                        !.header.used_space = Add32(c.header.used_space, size),
                        !.header.free_space = Sub32(c.header.free_space, size)],
        addr |-> addr]

increase_used_space(c, size) ==
  [c EXCEPT !.header.used_space = Add32(c.header.used_space, size)]
reduce_used_space(c, size) ==
  [c EXCEPT !.header.used_space = Sub32(c.header.used_space, size)]

transaction_snapshot_create(c) ==
  [c EXCEPT !.snapshot =
     [next_free_addr |-> c.header.next_free_addr, used_space |-> c.header.used_space,
      free_space |-> c.header.free_space, fragment_count |-> c.header.fragment_count,
      fragment_size |-> c.header.fragment_size, tag_count |-> c.header.tag_count,
      is_active |-> TRUE]]

transaction_snapshot_rollback(c) ==
  IF c.snapshot.is_active
  THEN [c EXCEPT !.header.next_free_addr = c.snapshot.next_free_addr,
                 !.header.used_space = c.snapshot.used_space,
                 !.header.free_space = c.snapshot.free_space,
                 !.header.fragment_count = c.snapshot.fragment_count,
                 !.header.fragment_size = c.snapshot.fragment_size,
                 !.header.tag_count = c.snapshot.tag_count,
                 !.snapshot.is_active = FALSE]
  ELSE c

transaction_snapshot_commit(c) == [c EXCEPT !.snapshot.is_active = FALSE]

\* ---------------------------------------------------------- data blocks
\* A block header as the tuple <<tag, length, version, write_count>>
\* (flags and timestamp are always 0: the port's clock returns 0).
HeaderTuple(h) == <<h.tag, h.length, h.version, h.write_count>>
HeaderCells(hv) == [j \in 1..BlockHeaderSize |-> [k |-> "H", v |-> hv, i |-> j - 1]]
DataCells(data) == [j \in 1..Len(data) |-> [k |-> "D", v |-> <<data[j]>>, i |-> 0]]
CrcCells(content) == [j \in 1..CrcSize |-> [k |-> "C", v |-> content, i |-> j - 1]]

\* What a read of sizeof(tlv_data_block_header_t) bytes at addr decodes to.
\* Bytes that are not one whole header decode to a header of no tag.
GarbageHeader == [tag |-> 65535, length |-> 0, version |-> 0, write_count |-> 0]
ReadHeader(fr, addr) ==
  LET c0 == CellAt(fr, addr) IN
  IF \A j \in 0..(BlockHeaderSize - 1) :
       LET cj == CellAt(fr, addr + j) IN cj.k = "H" /\ cj.i = j /\ cj.v = c0.v
  THEN [tag |-> c0.v[1], length |-> c0.v[2], version |-> c0.v[3], write_count |-> c0.v[4]]
  ELSE GarbageHeader
\* The bytes of a read of len bytes at addr (-1: a byte that is no payload).
ReadBytes(fr, addr, len) ==
  [j \in 1..len |-> LET cj == CellAt(fr, addr + j - 1) IN
                    IF cj.k = "D" THEN cj.v[1] ELSE -1]
\* The stored CRC16 at addr equals the CRC16 of content.
CrcMatches(fr, addr, content) ==
  \A j \in 0..(CrcSize - 1) :
    LET cj == CellAt(fr, addr + j) IN cj.k = "C" /\ cj.i = j /\ cj.v = content

write_data_block(c, tag, data, addr) ==
  LET meta == get_meta(tag)
      len == Len(data)
      \* the read of the old header, for its write_count
      readOk == ~PortFails(c)
      old_header == ReadHeader(c.fram, addr)
      c1 == PortTick(c)
      hv == <<tag, len, IF meta # NoMeta THEN meta.version ELSE 1,
              IF readOk /\ old_header.tag = tag THEN old_header.write_count + 1 ELSE 1>>
      \* Header -> Data -> CRC16
      c2 == [PortTick(c1) EXCEPT !.fram = WriteCells(c1.fram, addr, HeaderCells(hv))]
      c3 == [PortTick(c2) EXCEPT
               !.fram = WriteCells(c2.fram, addr + BlockHeaderSize, DataCells(data))]
      c4 == [PortTick(c3) EXCEPT
               !.fram = WriteCells(c3.fram, addr + BlockHeaderSize + len,
                                   CrcCells(hv \o data))]
  IN
  IF PortFails(c1) THEN [c |-> PortTick(c1), ret |-> PORT_ERROR]
  ELSE IF PortFails(c2) THEN [c |-> PortTick(c2), ret |-> PORT_ERROR]
  ELSE IF PortFails(c3) THEN [c |-> PortTick(c3), ret |-> PORT_ERROR]
  ELSE [c |-> c4, ret |-> TLV_OK]

\* len is the capacity of the caller's buffer.  Returns the context, the
\* code, the length stored to *len (the capacity when it is not stored) and
\* the bytes delivered.
read_data_block(c, addr, len) ==
  LET h == ReadHeader(c.fram, addr)
      c1 == PortTick(c)
      c2 == PortTick(c1)
      c3 == PortTick(c2)
      buf == ReadBytes(c.fram, addr + BlockHeaderSize, h.length)
  IN
  IF PortFails(c) THEN [c |-> c1, ret |-> PORT_ERROR, len |-> len, data |-> <<>>]
  ELSE IF h.length > len
  THEN [c |-> c1, ret |-> TLV_ERROR_NO_BUFFER_MEMORY, len |-> len, data |-> <<>>]
  ELSE IF h.length = 0 \* tlv_port_fram_read rejects a read of size 0
  THEN [c |-> c2, ret |-> TLV_ERROR_INVALID_PARAM, len |-> len, data |-> <<>>]
  ELSE IF PortFails(c1) THEN [c |-> c2, ret |-> PORT_ERROR, len |-> len, data |-> <<>>]
  ELSE IF PortFails(c2) THEN [c |-> c3, ret |-> PORT_ERROR, len |-> len, data |-> buf]
  ELSE IF ~CrcMatches(c.fram, addr + BlockHeaderSize + h.length, HeaderTuple(h) \o buf)
  THEN [c |-> c3, ret |-> TLV_ERROR_CRC_FAILED, len |-> len, data |-> buf]
  ELSE [c |-> c3, ret |-> TLV_OK, len |-> h.length, data |-> buf]

\* ------------------------------------------------------ backup / restore
\* One chunk of the management area copied between the primary (from = "hdr"
\* side) and the backup region.  The header and the index table each lie in
\* one chunk.
InChunk(start, size, offset, chunk) == offset <= start /\ start + size <= offset + chunk
BackupChunk(fr, offset, chunk) ==
  [fr EXCEPT
     !.bak.hdr = IF InChunk(TLV_HEADER_ADDR, SystemHeaderSize, offset, chunk)
                 THEN fr.hdr ELSE fr.bak.hdr,
     !.bak.idx = IF InChunk(TLV_INDEX_ADDR, IndexTableSize, offset, chunk)
                 THEN fr.idx ELSE fr.bak.idx]
RestoreChunk(fr, offset, chunk) ==
  [fr EXCEPT
     !.hdr = IF InChunk(TLV_HEADER_ADDR, SystemHeaderSize, offset, chunk)
             THEN fr.bak.hdr ELSE fr.hdr,
     !.idx = IF InChunk(TLV_INDEX_ADDR, IndexTableSize, offset, chunk)
             THEN fr.bak.idx ELSE fr.idx]

RECURSIVE BackupLoop(_, _)
BackupLoop(c, offset) ==
  LET chunk_size == Min(TLV_BUFFER_SIZE, TLV_DATA_REGION_SIZE - offset)
      c1 == PortTick(c)
  IN
  IF offset >= TLV_DATA_REGION_SIZE THEN [c |-> c, ret |-> TLV_OK]
  ELSE IF PortFails(c) THEN [c |-> c1, ret |-> PORT_ERROR]
  ELSE IF PortFails(c1) THEN [c |-> PortTick(c1), ret |-> PORT_ERROR]
  ELSE BackupLoop([PortTick(c1) EXCEPT !.fram = BackupChunk(c.fram, offset, chunk_size)],
                  offset + chunk_size)

tlv_backup_all_internal(c) ==
  IF ~c.ptrs THEN [c |-> c, ret |-> TLV_ERROR_INVALID_PARAM]
  ELSE BackupLoop(c, 0)

RECURSIVE RestoreLoop(_, _)
RestoreLoop(c, offset) ==
  LET chunk_size == Min(TLV_BUFFER_SIZE, TLV_DATA_REGION_SIZE - offset)
      c1 == PortTick(c)
  IN
  IF offset >= TLV_DATA_REGION_SIZE THEN [c |-> c, ret |-> TLV_OK]
  ELSE IF PortFails(c) THEN [c |-> c1, ret |-> PORT_ERROR]
  ELSE IF PortFails(c1) THEN [c |-> PortTick(c1), ret |-> PORT_ERROR]
  ELSE RestoreLoop([PortTick(c1) EXCEPT !.fram = RestoreChunk(c.fram, offset, chunk_size)],
                   offset + chunk_size)

tlv_restore_from_backup(c) ==
  LET backup_header == c.fram.bak.hdr
      c1 == PortTick(c)
      copied == RestoreLoop(c1, 0)
      loaded == system_header_load(copied.c)
  IN
  IF ~c.ptrs THEN [c |-> c, ret |-> TLV_ERROR_INVALID_PARAM]
  ELSE IF PortFails(c) THEN [c |-> c1, ret |-> PORT_ERROR]
  ELSE IF backup_header.h.magic # TLV_SYSTEM_MAGIC THEN [c |-> c1, ret |-> TLV_ERROR_CORRUPTED]
  ELSE IF backup_header.crc # backup_header.h THEN [c |-> c1, ret |-> TLV_ERROR_CORRUPTED]
  ELSE IF backup_header.h.data_region_size # TLV_BACKUP_ADDR - TLV_DATA_ADDR
  THEN [c |-> c1, ret |-> TLV_ERROR_CORRUPTED]
  ELSE IF copied.ret # TLV_OK THEN copied
  ELSE IF loaded.ret # TLV_OK THEN loaded
  ELSE tlv_index_load(loaded.c)

\* ------------------------------------------------------- system management
R(c, ret) == [c |-> c, ret |-> ret]

tlv_init(c) ==
  LET c0 == [c EXCEPT !.ptrs = TRUE, !.snapshot = ZeroSnapshot,
                      !.header = ZeroHeader, !.index = ZeroIndex]
      hl == system_header_load(c0)
      il == tlv_index_load(hl.c)
      rs == tlv_restore_from_backup(il.c)
  IN
  IF hl.ret = TLV_OK
  THEN IF il.ret = TLV_OK
       THEN R([il.c EXCEPT !.state = TLV_STATE_INITIALIZED], TLV_INIT_OK)
       ELSE IF rs.ret = TLV_OK
       THEN R([rs.c EXCEPT !.state = TLV_STATE_INITIALIZED], TLV_INIT_RECOVERED)
       ELSE R([rs.c EXCEPT !.state = TLV_STATE_ERROR], TLV_INIT_ERROR)
  ELSE R([hl.c EXCEPT !.state = TLV_STATE_UNINITIALIZED], TLV_INIT_FIRST_BOOT)

tlv_deinit(c) ==
  LET c1 == IF c.ptrs THEN tlv_index_save(c).c ELSE c
      c2 == IF c1.ptrs THEN system_header_save(c1).c ELSE c1
  IN
  R([tlv_index_deinit(c2) EXCEPT !.state = TLV_STATE_UNINITIALIZED], TLV_OK)

tlv_format(c, magic) ==
  LET c0 == [c EXCEPT !.ptrs = TRUE]
      hi == system_header_init(c0)
      c1 == IF magic # 0 THEN [hi.c EXCEPT !.header.magic = magic] ELSE hi.c
      ii == tlv_index_init(c1)
      hs == system_header_save(ii.c)
      is == tlv_index_save(hs.c)
      bk == tlv_backup_all_internal(is.c)
      Fail(r) == R([r.c EXCEPT !.state = TLV_STATE_ERROR], r.ret)
  IN
  IF hi.ret # TLV_OK THEN Fail(hi)
  ELSE IF ii.ret # TLV_OK THEN Fail(ii)
  ELSE IF hs.ret # TLV_OK THEN Fail(hs)
  ELSE IF is.ret # TLV_OK THEN Fail(is)
  ELSE IF bk.ret # TLV_OK THEN Fail(bk)
  ELSE R([bk.c EXCEPT !.state = TLV_STATE_FORMATTED], TLV_OK)

tlv_backup_all(c) ==
  LET bk == tlv_backup_all_internal(c) IN
  IF c.state # TLV_STATE_INITIALIZED /\ c.state # TLV_STATE_FORMATTED THEN R(c, TLV_ERROR)
  ELSE IF bk.ret = TLV_OK
  THEN R(system_header_save([bk.c EXCEPT !.header.last_update_time = 0]).c, TLV_OK)
  ELSE bk

\* ------------------------------------------------------------ defragment
\* Stable insertion of entry e in a sequence sorted by data_addr.
RECURSIVE InsertByAddr(_, _)
InsertByAddr(sorted, e) ==
  IF sorted = <<>> THEN <<e>>
  ELSE IF sorted[Len(sorted)].data_addr > e.data_addr
  THEN Append(InsertByAddr(SubSeq(sorted, 1, Len(sorted) - 1), e), sorted[Len(sorted)])
  ELSE Append(sorted, e)
RECURSIVE InsertionSort(_, _)
InsertionSort(done, rest) ==
  IF rest = <<>> THEN done
  ELSE InsertionSort(InsertByAddr(done, Head(rest)), Tail(rest))
IsLive(e) == e.tag # 0 /\ HasValid(e.flags)
RECURSIVE Compact(_, _)
Compact(idx, i) ==
  IF i > TLV_MAX_TAG_COUNT THEN <<>>
  ELSE IF IsLive(idx[i]) THEN <<idx[i]>> \o Compact(idx, i + 1)
  ELSE Compact(idx, i + 1)

\* The index table after sort_index_table_inplace.
sort_index_table_inplace(idx) ==
  LET live == Compact(idx, 1)
      total_valid == Len(live)
      sorted == InsertionSort(<<>>, live)
  IN
  IF total_valid <= 0 \/ total_valid >= TLV_MAX_TAG_COUNT THEN idx
  ELSE [i \in 1..TLV_MAX_TAG_COUNT |-> IF i <= total_valid THEN sorted[i] ELSE ZeroEntry]

\* The chunked copy of a block of tlv_defragment (read, then write).
RECURSIVE CopyBlock(_, _, _, _, _)
CopyBlock(c, src, dst, src_offset, remaining) ==
  LET chunk_size == Min(remaining, TLV_BUFFER_SIZE)
      c1 == PortTick(c)
      cells == [j \in 1..chunk_size |-> CellAt(c.fram, src + src_offset + j - 1)]
  IN
  IF remaining <= 0 THEN R(c, TLV_OK)
  ELSE IF PortFails(c) THEN R(c1, PORT_ERROR)
  ELSE IF PortFails(c1) THEN R(PortTick(c1), PORT_ERROR)
  ELSE CopyBlock([PortTick(c1) EXCEPT !.fram = WriteCells(c1.fram, dst + src_offset, cells)],
                 src, dst, src_offset + chunk_size, remaining - chunk_size)

\* The loop over the live entries; returns the context, the code, write_pos
\* and total_used.
RECURSIVE DefragLoop(_, _, _, _, _)
DefragLoop(c, i, total_tags, write_pos, total_used) ==
  LET entry == c.index[i]
      c1 == PortTick(c)
      hdr == ReadHeader(c.fram, entry.data_addr)
      block_size == BlockHeaderSize + hdr.length + CrcSize
      cp == CopyBlock(c1, entry.data_addr, write_pos, 0, block_size)
      moved == [cp.c EXCEPT !.index[i].data_addr = write_pos,
                            !.index[i].flags = ClearDirty(entry.flags)]
      kept == [c1 EXCEPT !.index[i].flags = ClearDirty(entry.flags)]
  IN
  IF i > total_tags
  THEN [c |-> c, ret |-> TLV_OK, write_pos |-> write_pos, total_used |-> total_used]
  ELSE IF ~IsLive(entry) THEN DefragLoop(c, i + 1, total_tags, write_pos, total_used)
  ELSE IF PortFails(c) THEN DefragLoop(c1, i + 1, total_tags, write_pos, total_used)
  ELSE IF entry.data_addr # write_pos
  THEN IF cp.ret # TLV_OK
       THEN [c |-> cp.c, ret |-> cp.ret, write_pos |-> write_pos, total_used |-> total_used]
       ELSE DefragLoop(moved, i + 1, total_tags, write_pos + block_size,
                       total_used + block_size)
  ELSE DefragLoop(kept, i + 1, total_tags, write_pos + block_size, total_used + block_size)

\* Number of leading live entries (the recount after the sort).
RECURSIVE LeadingLive(_, _)
LeadingLive(idx, i) ==
  IF i > TLV_MAX_TAG_COUNT \/ ~IsLive(idx[i]) THEN 0 ELSE 1 + LeadingLive(idx, i + 1)

DefragEmpty(c) ==
  LET hi == system_header_init(c)
      ii == tlv_index_init(hi.c)
      hs == system_header_save(ii.c)
      is == tlv_index_save(hs.c)
  IN
  IF hi.ret # TLV_OK THEN hi
  ELSE IF ii.ret # TLV_OK THEN ii
  ELSE IF hs.ret # TLV_OK THEN hs
  ELSE IF is.ret # TLV_OK THEN is
  ELSE tlv_backup_all_internal(is.c)

\* tlv_defragment with live entries, in the order of the code: the backup
\* (DefragMove), the sort and the walk (DefragSorted), the header update and the
\* save of the index (DefragMoved), the save of the header (DefragSaved) and
\* the refresh of the backup (DefragBackedUp).
DefragBackedUp(hs) ==
  IF hs.ret # TLV_OK THEN hs ELSE tlv_backup_all_internal(hs.c)

DefragSaved(is) ==
  IF is.ret # TLV_OK THEN is ELSE DefragBackedUp(system_header_save(is.c))

\* A variant of DefragMoved that counts the compaction as a write.
DefragMovedCounted(lp, total_tags) ==
  LET region_size == TLV_BACKUP_ADDR - TLV_DATA_ADDR IN
  IF lp.ret # TLV_OK THEN R(lp.c, lp.ret)
  ELSE DefragSaved(tlv_index_save(
         [lp.c EXCEPT
            !.header.tag_count = total_tags,
            !.header.next_free_addr = lp.write_pos,
            !.header.free_space = IF region_size > lp.total_used
                                  THEN region_size - lp.total_used ELSE 0,
            !.header.used_space = lp.total_used,
            !.header.fragment_count = 0,
            !.header.fragment_size = 0,
            !.header.total_writes = Add32(lp.c.header.total_writes, 1)]))

DefragMoved(lp, total_tags) ==
  LET region_size == TLV_BACKUP_ADDR - TLV_DATA_ADDR IN
  IF lp.ret # TLV_OK THEN R(lp.c, lp.ret)
  ELSE DefragSaved(tlv_index_save(
         [lp.c EXCEPT
            !.header.data_region_start = TLV_DATA_ADDR,
            !.header.data_region_size = region_size,
            !.header.tag_count = total_tags,
            !.header.next_free_addr = lp.write_pos,
            !.header.free_space = IF region_size > lp.total_used
                                  THEN region_size - lp.total_used ELSE 0,
            !.header.used_space = lp.total_used,
            !.header.fragment_count = 0,
            !.header.fragment_size = 0]))

DefragWalk(c, total_tags) ==
  DefragMoved(DefragLoop(c, 1, total_tags, TLV_DATA_ADDR, 0), total_tags)

DefragSorted(bk, sorted) ==
  IF bk.ret # TLV_OK THEN bk
  ELSE DefragWalk([bk.c EXCEPT !.index = sorted], LeadingLive(sorted, 1))

DefragMove(c) ==
  DefragSorted(tlv_backup_all_internal(c), sort_index_table_inplace(c.index))

tlv_defragment(c) ==
  IF c.state # TLV_STATE_INITIALIZED THEN R(c, TLV_ERROR)
  ELSE IF \A i \in 1..TLV_MAX_TAG_COUNT : ~IsLive(c.index[i]) THEN DefragEmpty(c)
  ELSE DefragMove(c)

\* The percentage of tlv_calculate_fragmentation (state is INITIALIZED).
tlv_calculate_fragmentation(c) ==
  LET allocated == Sub32(c.header.next_free_addr, TLV_DATA_ADDR)
      wasted == Sub32(allocated, c.header.used_space)
  IN
  IF c.header.data_region_size > 0
  THEN ((wasted * 100) % WordMod) \div c.header.data_region_size
  ELSE 0

\* ------------------------------------------------------------- tlv_write
\* tlv_write in the order of the code.  WritePlace (lines 291-361) takes the
\* snapshot and chooses the target; it returns the plan: the context, the
\* code (not TLV_OK: the write returns it), target_addr, the slot idx of the
\* live entry found (0: none), old_block_size and need_add_index.
WritePlan(c, ret, target_addr, idx, old_block_size, need_add_index) ==
  [c |-> c, ret |-> ret, target_addr |-> target_addr, idx |-> idx,
   old_block_size |-> old_block_size, need_add_index |-> need_add_index]

WritePlaceLive(c, idx, new_block_size, old_block_size, moved) ==
  IF PortFails(c) THEN WritePlan(PortTick(c), PORT_ERROR, 0, idx, 0, FALSE)
  ELSE IF new_block_size <= old_block_size
  THEN WritePlan(increase_used_space(reduce_used_space(PortTick(c), old_block_size),
                                     new_block_size),
                 TLV_OK, c.index[idx].data_addr, idx, old_block_size, FALSE)
  ELSE IF ~(c.header.tag_count < TLV_MAX_TAG_COUNT)
  THEN WritePlan(PortTick(c), TLV_ERROR_NO_INDEX_SPACE, 0, idx, old_block_size, FALSE)
  ELSE IF moved.addr = 0
  THEN WritePlan(moved.c, TLV_ERROR_NO_MEMORY_SPACE, 0, idx, old_block_size, FALSE)
  ELSE WritePlan(moved.c, TLV_OK, moved.addr, idx, old_block_size, TRUE)

WritePlaceNew(c, fresh) ==
  IF ~(c.header.tag_count < TLV_MAX_TAG_COUNT)
  THEN WritePlan(c, TLV_ERROR_NO_INDEX_SPACE, 0, 0, 0, FALSE)
  ELSE IF fresh.addr = 0 THEN WritePlan(fresh.c, TLV_ERROR_NO_MEMORY_SPACE, 0, 0, 0, FALSE)
  ELSE WritePlan(fresh.c, TLV_OK, fresh.addr, 0, 0, TRUE)

WritePlaceAt(c, idx, new_block_size) ==
  IF idx # 0
  THEN WritePlaceLive(c, idx, new_block_size,
                      TLV_BLOCK_SIZE(ReadHeader(c.fram, c.index[idx].data_addr).length),
                      allocate_space(PortTick(c), new_block_size))
  ELSE WritePlaceNew(c, allocate_space(c, new_block_size))

WritePlace(c, tag, len) ==
  WritePlaceAt(transaction_snapshot_create(c), tlv_index_find(c, tag), TLV_BLOCK_SIZE(len))

\* Lines 430-448: the automatic defragmentation after the header is saved.
WriteAutoDefrag(hs) ==
  IF hs.ret # TLV_OK THEN hs
  ELSE IF tlv_calculate_fragmentation(hs.c) >= TLV_AUTO_DEFRAG_THRESHOLD
  THEN tlv_defragment(hs.c)
  ELSE hs

\* Lines 411-428: the index is saved; commit, statistics, save of the header.
WriteFinish(is) ==
  IF is.ret # TLV_OK THEN is
  ELSE WriteAutoDefrag(system_header_save(
         [transaction_snapshot_commit(is.c) EXCEPT
            !.header.total_writes = Add32(is.c.header.total_writes, 1),
            !.header.last_update_time = 0]))

\* Lines 396-403: the result of tlv_index_add (slot 0: NULL).
WriteIndexed(ix) ==
  IF ix.slot = 0 THEN R(ix.c, TLV_ERROR_NO_INDEX_SPACE)
  ELSE WriteFinish(tlv_index_save(ix.c))

\* A variant of WriteRetire that counts the fragment and not its size.
WriteRetireUnsized(c, idx, old_block_size) ==
  IF idx # 0
  THEN [reduce_used_space(c, old_block_size) EXCEPT
          !.index[idx].flags = TLV_FLAG_DIRTY,
          !.header.fragment_count = Add32(c.header.fragment_count, 1)]
  ELSE c

\* Lines 382-394: the live entry of a relocated tag is retired.
WriteRetire(c, idx, old_block_size) ==
  IF idx # 0
  THEN [reduce_used_space(c, old_block_size) EXCEPT
          !.index[idx].flags = TLV_FLAG_DIRTY,
          !.header.fragment_count = Add32(c.header.fragment_count, 1),
          !.header.fragment_size = Add32(c.header.fragment_size, old_block_size)]
  ELSE c

\* Lines 379-408: add the index entry, or update it (the code of
\* tlv_index_update is ignored).
WriteIndex(c, p, tag) ==
  IF p.need_add_index
  THEN tlv_index_add(WriteRetire(c, p.idx, p.old_block_size), tag, p.target_addr)
  ELSE [c |-> tlv_index_update(c, tag, p.target_addr).c, slot |-> p.idx]

\* Lines 364-376: the block is written, or the snapshot is rolled back and
\* the code of system_header_save is returned.
WriteWritten(wr, p, tag) ==
  IF wr.ret # TLV_OK THEN system_header_save(transaction_snapshot_rollback(wr.c))
  ELSE WriteIndexed(WriteIndex(wr.c, p, tag))

WriteBlock(p, tag, data) ==
  IF p.ret # TLV_OK THEN R(p.c, p.ret)
  ELSE WriteWritten(write_data_block(p.c, tag, data, p.target_addr), p, tag)

tlv_write(c, tag, data) ==
  LET meta == get_meta(tag) IN
  IF Len(data) = 0 \/ tag = 0 THEN R(c, TLV_ERROR_INVALID_PARAM)
  ELSE IF ~c.ptrs THEN R(c, TLV_ERROR_INVALID_PARAM)
  ELSE IF c.state # TLV_STATE_INITIALIZED THEN R(c, TLV_ERROR)
  ELSE IF meta = NoMeta THEN R(c, TLV_ERROR_NOT_FOUND)
  ELSE IF Len(data) > meta.max_length THEN R(c, TLV_ERROR_INVALID_PARAM)
  ELSE WriteBlock(WritePlace(c, tag, Len(data)), tag, data)

\* ------------------------------------------------------------- migration
\* The system configuration record, scaled: version 1 is one byte, version
\* 2 keeps it and appends the flags byte, whose default is 1.
SYSTEM_CONFIG_V1_SIZE == 1
SYSTEM_CONFIG_V2_SIZE == 2
CONFIG_FLAGS_DEFAULT == 1

\* A migration returns its code, the length it stored to *new_len (0: it
\* stored none) and the bytes of the buffer.
Migrated(ret, len, data) == [ret |-> ret, len |-> len, data |-> data]

migrate_system_config_v1_to_v2(data, old_len, max_size, old_ver, new_ver) ==
  IF old_len < SYSTEM_CONFIG_V1_SIZE THEN Migrated(TLV_ERROR_INVALID_PARAM, 0, data)
  ELSE IF max_size < SYSTEM_CONFIG_V2_SIZE
  THEN Migrated(TLV_ERROR_NO_BUFFER_MEMORY, SYSTEM_CONFIG_V2_SIZE, data)
  ELSE IF old_ver # 1 /\ new_ver # 2 THEN Migrated(TLV_ERROR_VERSION, 0, data)
  ELSE Migrated(TLV_OK, SYSTEM_CONFIG_V2_SIZE,
                SubSeq(data, 1, SYSTEM_CONFIG_V1_SIZE) \o <<CONFIG_FLAGS_DEFAULT>>)

\* The loop over the versions between old_ver and new_ver makes one step:
\* the schema is at version 2.
migrate_system_config(data, old_len, max_size, old_ver, new_ver) ==
  IF old_ver >= new_ver THEN Migrated(TLV_ERROR_VERSION, 0, data)
  ELSE IF old_ver = 1
  THEN migrate_system_config_v1_to_v2(data, old_len, max_size, old_ver, old_ver + 1)
  ELSE Migrated(TLV_ERROR_VERSION, 0, data)

\* The engine's rules around the migration function of a tag.
tlv_migrate_tag(tag, data, old_len, max_size, current_ver) ==
  LET meta == get_meta(tag)
      m == migrate_system_config(data, old_len, max_size, current_ver, meta.version)
  IN
  IF meta = NoMeta THEN Migrated(TLV_ERROR_NOT_FOUND, 0, data)
  ELSE IF current_ver = meta.version THEN Migrated(TLV_OK, old_len, data)
  ELSE IF current_ver > meta.version THEN Migrated(TLV_ERROR_VERSION, 0, data)
  ELSE IF ~meta.migrate THEN Migrated(TLV_ERROR_VERSION, 0, data)
  ELSE IF m.ret = TLV_OK /\ m.len > meta.max_length
  THEN Migrated(TLV_ERROR_INVALID_PARAM, m.len, data)
  ELSE m

\* -------------------------------------------------------------- tlv_read
\* len is the capacity of the caller's buffer (*len on entry).
\* The lazy migration of a block that was read: rd is what read_data_block
\* returned, idx the slot of the entry.
ReadMigrated(rd, tag, len, idx, mg) ==
  IF mg.ret = TLV_OK
  THEN \* written back; a failure of the write is only printed
       [c |-> tlv_write(rd.c, tag, mg.data).c, ret |-> TLV_OK, len |-> mg.len,
        data |-> mg.data]
  ELSE IF mg.ret = TLV_ERROR_NO_BUFFER_MEMORY
  THEN [c |-> rd.c, ret |-> mg.ret, len |-> mg.len, data |-> rd.data]
  ELSE \* any other failure is only printed: the old data are read again
       read_data_block(rd.c, rd.c.index[idx].data_addr, len)

ReadLazy(rd, tag, len, idx) ==
  LET meta == get_meta(tag) IN
  IF rd.ret # TLV_OK THEN rd
  ELSE IF meta # NoMeta /\ rd.c.index[idx].version < meta.version
  THEN ReadMigrated(rd, tag, len, idx,
                    tlv_migrate_tag(tag, rd.data, rd.len, len, rd.c.index[idx].version))
  ELSE rd

tlv_read(c, tag, len) ==
  LET idx == tlv_index_find(c, tag)
      NoData(ret) == [c |-> c, ret |-> ret, len |-> len, data |-> <<>>]
  IN
  IF tag = 0 \/ len = 0 THEN NoData(TLV_ERROR_INVALID_PARAM)
  ELSE IF c.state # TLV_STATE_INITIALIZED THEN NoData(TLV_ERROR)
  ELSE IF idx = 0 THEN NoData(TLV_ERROR_NOT_FOUND)
  ELSE ReadLazy(read_data_block(c, c.index[idx].data_addr, len), tag, len, idx)

\* ------------------------------------------------------------ tlv_delete
tlv_delete(c, tag) ==
  LET idx == tlv_index_find(c, tag)
      c1 == PortTick(c)
      hdr == ReadHeader(c.fram, c.index[idx].data_addr)
      block_size == BlockHeaderSize + hdr.length + CrcSize
      counted ==
        IF PortFails(c) THEN c1
        ELSE [reduce_used_space(c1, block_size) EXCEPT
                !.header.fragment_count = Add32(c1.header.fragment_count, 1),
                !.header.fragment_size = Add32(c1.header.fragment_size, block_size)]
      rm == tlv_index_remove(counted, tag)
      saved == system_header_save(
                 tlv_index_save([rm.c EXCEPT !.header.last_update_time = 0]).c).c
  IN
  IF tag = 0 THEN R(c, TLV_ERROR_INVALID_PARAM)
  ELSE IF c.state # TLV_STATE_INITIALIZED THEN R(c, TLV_ERROR)
  ELSE IF idx = 0 THEN R(c, TLV_ERROR_NOT_FOUND)
  ELSE IF rm.ret = TLV_OK THEN R(saved, TLV_OK)
  ELSE rm

tlv_exists(c, tag) ==
  IF tag = 0 \/ c.state # TLV_STATE_INITIALIZED THEN FALSE
  ELSE tlv_index_find(c, tag) # 0

\* ------------------------------------------------------- the error ledger
\* g_last_error.error_code is the field err of the context.  TLV_SET_ERROR
\* records the code and returns it.
tlv_set_last_error(c, error_code) == R([c EXCEPT !.err = error_code], error_code)
tlv_get_last_error(c) == c.err
tlv_clear_error(c) == [c EXCEPT !.err = 0]

\* -------------------------------------------------------- stream sessions
\* The pool g_stream_ctx.handles; crc16 is the content accumulated so far and
\* old_index the slot of the entry a relocating session replaces (0: NULL).
\* base and solo are history, not program state: what every tag read when
\* the write session began, and that no other write session has been open
\* at the same time.
ZeroStream ==
  [magic |-> 0, state |-> TLV_STREAM_STATE_IDLE, tag |-> 0, data_addr |-> 0,
   current_offset |-> 0, total_len |-> 0, processed_len |-> 0, crc16 |-> <<>>,
   old_index |-> 0, old_block_size |-> 0, old_version |-> 0, base |-> <<>>,
   solo |-> FALSE]
StreamSlots == 0..(TLV_MAX_STREAM_HANDLES - 1)
ZeroStreams == [i \in StreamSlots |-> ZeroStream]

\* x & 0xFFFF0000 and x & 0xFFFF
HighHalf(x) == (x \div 65536) * 65536
LowHalf(x) == x % 65536

index_to_handle(slot) ==
  IF slot < 0 \/ slot >= TLV_MAX_STREAM_HANDLES THEN TLV_STREAM_INVALID_HANDLE
  ELSE HighHalf(TLV_STREAM_MAGIC) + LowHalf(slot)

handle_to_index(handle) ==
  IF HighHalf(handle) # HighHalf(TLV_STREAM_MAGIC) THEN -1
  ELSE IF LowHalf(handle) >= TLV_MAX_STREAM_HANDLES THEN -1
  ELSE LowHalf(handle)

\* Returns the context and the handle.
find_free_stream_handle(c) ==
  LET idle == {i \in StreamSlots : c.streams[i].state = TLV_STREAM_STATE_IDLE}
      i == CHOOSE k \in idle : \A j \in idle : k <= j
  IN
  IF idle = {} THEN R(c, TLV_STREAM_INVALID_HANDLE)
  ELSE R([c EXCEPT !.streams[i] = [ZeroStream EXCEPT !.magic = TLV_STREAM_MAGIC]],
         index_to_handle(i))

\* A variant of validate_and_get_handle that does not look at the state.
validate_and_get_handle_stateless(c, handle, expected_state) ==
  LET slot == handle_to_index(handle) IN
  IF slot < 0 THEN -1
  ELSE IF c.streams[slot].magic # TLV_STREAM_MAGIC THEN -1
  ELSE slot

\* The slot of a handle in the expected state, or -1 (NULL).
validate_and_get_handle(c, handle, expected_state) ==
  LET slot == handle_to_index(handle) IN
  IF slot < 0 THEN -1
  ELSE IF c.streams[slot].magic # TLV_STREAM_MAGIC THEN -1
  ELSE IF c.streams[slot].state # expected_state THEN -1
  ELSE slot

\* A variant of release_stream_handle that clears the magic number and leaves
\* the rest of the slot, its state included.
release_stream_handle_marked(c, handle) ==
  LET slot == handle_to_index(handle) IN
  IF slot >= 0 /\ slot < TLV_MAX_STREAM_HANDLES
  THEN [c EXCEPT !.streams[slot].magic = 0]
  ELSE c

release_stream_handle(c, handle) ==
  LET slot == handle_to_index(handle) IN
  IF slot >= 0 /\ slot < TLV_MAX_STREAM_HANDLES
  THEN [c EXCEPT !.streams[slot] = ZeroStream]
  ELSE c

\* -------------------------------------------------------- tlv_write_begin
\* Every failure after the handle is taken: rollback, release, invalid handle.
BeginFail(c, handle) ==
  R(release_stream_handle(transaction_snapshot_rollback(c), handle),
    TLV_STREAM_INVALID_HANDLE)

\* Lines 1912-1961: the session is initialised and the block header written.
\* c1 is the context after the read of the old write_count (in-place only).
BeginWriteHeader(c1, p, handle, tag, total_len, write_count) ==
  LET hv == <<tag, total_len, get_meta(tag).version, write_count>>
      session ==
        [magic |-> TLV_STREAM_MAGIC, state |-> TLV_STREAM_STATE_WRITING, tag |-> tag,
         data_addr |-> p.target_addr, current_offset |-> BlockHeaderSize,
         total_len |-> total_len, processed_len |-> 0, crc16 |-> hv,
         old_index |-> IF p.need_add_index THEN p.idx ELSE 0,
         old_block_size |-> IF p.need_add_index /\ p.idx # 0 THEN p.old_block_size ELSE 0,
         old_version |-> IF p.idx # 0
                         THEN ReadHeader(p.c.fram, p.c.index[p.idx].data_addr).version
                         ELSE 0,
         base |-> <<>>, solo |-> FALSE]
  IN
  IF PortFails(c1) THEN BeginFail(PortTick(c1), handle)
  ELSE R([PortTick(c1) EXCEPT
            !.fram = WriteCells(c1.fram, p.target_addr, HeaderCells(hv)),
            !.streams[handle_to_index(handle)] = session],
         handle)

\* Lines 1923-1944: the write_count of the new header.
BeginCount(p, handle, tag, total_len) ==
  LET old_hdr == ReadHeader(p.c.fram, p.target_addr) IN
  IF ~p.need_add_index /\ p.idx # 0
  THEN BeginWriteHeader(PortTick(p.c), p, handle, tag, total_len,
                        IF ~PortFails(p.c) /\ old_hdr.tag = tag
                        THEN old_hdr.write_count + 1 ELSE 1)
  ELSE BeginWriteHeader(p.c, p, handle, tag, total_len, 1)

\* Lines 1827-1910: the placement is that of tlv_write (WritePlace), with
\* rollback and release on each failure.
BeginPlaced(p, handle, tag, total_len) ==
  IF p.ret # TLV_OK THEN BeginFail(p.c, handle)
  ELSE BeginCount(p, handle, tag, total_len)

BeginHandle(fh, tag, total_len) ==
  IF fh.ret = TLV_STREAM_INVALID_HANDLE THEN fh
  ELSE BeginPlaced(WritePlace(fh.c, tag, total_len), fh.ret, tag, total_len)

\* Returns the context and the handle.
tlv_write_begin(c, tag, total_len) ==
  IF tag = 0 \/ total_len = 0 THEN R(c, TLV_STREAM_INVALID_HANDLE)
  ELSE IF ~c.ptrs THEN R(c, TLV_STREAM_INVALID_HANDLE)
  ELSE IF c.state # TLV_STATE_INITIALIZED THEN R(c, TLV_STREAM_INVALID_HANDLE)
  ELSE IF get_meta(tag) = NoMeta THEN R(c, TLV_STREAM_INVALID_HANDLE)
  ELSE IF total_len > get_meta(tag).max_length THEN R(c, TLV_STREAM_INVALID_HANDLE)
  ELSE BeginHandle(find_free_stream_handle(c), tag, total_len)

\* -------------------------------------------------------- tlv_write_chunk
tlv_write_chunk(c, handle, data) ==
  LET slot == validate_and_get_handle(c, handle, TLV_STREAM_STATE_WRITING)
      h == c.streams[slot]
      len == Len(data)
  IN
  IF len = 0 THEN tlv_set_last_error(c, TLV_ERROR_INVALID_PARAM)
  ELSE IF slot < 0 THEN tlv_set_last_error(c, TLV_ERROR_INVALID_HANDLE)
  ELSE IF h.processed_len + len > h.total_len
  THEN tlv_set_last_error(c, TLV_ERROR_INVALID_PARAM)
  ELSE IF PortFails(c) THEN tlv_set_last_error(PortTick(c), PORT_ERROR)
  ELSE R([PortTick(c) EXCEPT
            !.fram = WriteCells(c.fram, h.data_addr + h.current_offset, DataCells(data)),
            !.streams[slot].crc16 = h.crc16 \o data,
            !.streams[slot].current_offset = h.current_offset + len,
            !.streams[slot].processed_len = h.processed_len + len],
         TLV_OK)

\* ---------------------------------------------------------- tlv_write_end
\* Every failure before the index is saved: rollback, header save, release.
EndFail(c, handle, ret) ==
  tlv_set_last_error(
    release_stream_handle(system_header_save(transaction_snapshot_rollback(c)).c, handle),
    ret)

\* Lines 2122-2135: the automatic defragmentation; its code is recorded
\* when it fails and not returned.
EndDefragmented(d) ==
  IF d.ret # TLV_OK THEN R(tlv_set_last_error(d.c, d.ret).c, TLV_OK)
  ELSE R(d.c, TLV_OK)
EndAutoDefrag(c) ==
  IF c.state = TLV_STATE_INITIALIZED
     /\ tlv_calculate_fragmentation(c) >= TLV_AUTO_DEFRAG_THRESHOLD
  THEN EndDefragmented(tlv_defragment(c))
  ELSE R(c, TLV_OK)

\* Lines 2104-2120: the header is saved and the handle released.
EndSaved(hs, handle) ==
  IF hs.ret # TLV_OK THEN tlv_set_last_error(release_stream_handle(hs.c, handle), hs.ret)
  ELSE EndAutoDefrag(release_stream_handle(hs.c, handle))

\* Lines 2091-2103: the index is saved; commit and statistics.
EndFinish(is, handle) ==
  IF is.ret # TLV_OK THEN tlv_set_last_error(release_stream_handle(is.c, handle), is.ret)
  ELSE EndSaved(system_header_save(
                  [transaction_snapshot_commit(is.c) EXCEPT
                     !.header.total_writes = Add32(is.c.header.total_writes, 1),
                     !.header.last_update_time = 0]),
                handle)

\* Lines 2076-2083: the result of tlv_index_add (slot 0: NULL).
EndIndexed(ix, handle) ==
  IF ix.slot = 0 THEN EndFail(ix.c, handle, TLV_ERROR_NO_INDEX_SPACE)
  ELSE EndFinish(tlv_index_save(ix.c), handle)

\* Lines 2062-2074: the entry the session replaces is retired if still valid.
EndRetire(c, h) ==
  IF HasValid(c.index[h.old_index].flags)
  THEN [reduce_used_space(c, h.old_block_size) EXCEPT
          !.index[h.old_index].flags = TLV_FLAG_DIRTY,
          !.header.fragment_count = Add32(c.header.fragment_count, 1),
          !.header.fragment_size = Add32(c.header.fragment_size, h.old_block_size)]
  ELSE c

\* Lines 2057-2089: need_add_index is (old_index != NULL); otherwise the
\* entry is updated and the code of tlv_index_update ignored.
EndIndex(c, h, handle) ==
  IF h.old_index # 0
  THEN EndIndexed(tlv_index_add(EndRetire(c, h), h.tag, h.data_addr), handle)
  ELSE EndFinish(tlv_index_save(tlv_index_update(c, h.tag, h.data_addr).c), handle)

\* Lines 2045-2055: the trailing CRC is written.
EndCrc(c, h, handle) ==
  IF PortFails(c) THEN EndFail(PortTick(c), handle, PORT_ERROR)
  ELSE EndIndex([PortTick(c) EXCEPT
                   !.fram = WriteCells(c.fram, h.data_addr + h.current_offset,
                                       CrcCells(h.crc16))],
                h, handle)

tlv_write_end(c, handle) ==
  LET slot == validate_and_get_handle(c, handle, TLV_STREAM_STATE_WRITING) IN
  IF slot < 0 THEN tlv_set_last_error(c, TLV_ERROR_INVALID_HANDLE)
  ELSE IF c.streams[slot].processed_len # c.streams[slot].total_len
  THEN tlv_set_last_error(c, TLV_ERROR_INVALID_STATE)
  ELSE EndCrc(c, c.streams[slot], handle)

\* -------------------------------------------------------- tlv_write_abort
\* The function returns nothing; the code tells whether the handle was valid.
tlv_write_abort(c, handle) ==
  LET slot == validate_and_get_handle(c, handle, TLV_STREAM_STATE_WRITING)
      saved == system_header_save(transaction_snapshot_rollback(c)).c
      wasted_size == TLV_BLOCK_SIZE(c.streams[slot].total_len)
  IN
  IF slot < 0 THEN R(c, TLV_ERROR_INVALID_HANDLE)
  ELSE R(release_stream_handle(
           [saved EXCEPT
              !.header.fragment_count = Add32(saved.header.fragment_count, 1),
              !.header.fragment_size = Add32(saved.header.fragment_size, wasted_size)],
           handle),
         TLV_OK)

\* --------------------------------------------------------- tlv_read_begin
\* Returns the context, the handle and the length stored to *total_len.
ReadBeginResult(c, handle, total_len) == [c |-> c, ret |-> handle, total_len |-> total_len]

\* Lines 2207-2238: the header is read and the session initialised.
ReadBeginHeader(fh, tag, addr) ==
  LET handle == fh.ret
      blk == ReadHeader(fh.c.fram, addr)
      c1 == PortTick(fh.c)
      session ==
        [fh.c.streams[handle_to_index(handle)] EXCEPT
           !.tag = tag, !.data_addr = addr, !.current_offset = BlockHeaderSize,
           !.total_len = blk.length, !.processed_len = 0,
           !.crc16 = HeaderTuple(blk), !.state = TLV_STREAM_STATE_READING]
  IN
  IF handle = TLV_STREAM_INVALID_HANDLE
  THEN ReadBeginResult(fh.c, TLV_STREAM_INVALID_HANDLE, 0)
  ELSE IF PortFails(fh.c)
  THEN ReadBeginResult(release_stream_handle(c1, handle), TLV_STREAM_INVALID_HANDLE, 0)
  ELSE IF blk.tag # tag
  THEN ReadBeginResult(release_stream_handle(c1, handle), TLV_STREAM_INVALID_HANDLE, 0)
  ELSE ReadBeginResult([c1 EXCEPT !.streams[handle_to_index(handle)] = session],
                       handle, blk.length)

tlv_read_begin(c, tag) ==
  LET slot == tlv_index_find(c, tag) IN
  IF tag = 0 THEN ReadBeginResult(c, TLV_STREAM_INVALID_HANDLE, 0)
  ELSE IF c.state # TLV_STATE_INITIALIZED
  THEN ReadBeginResult(c, TLV_STREAM_INVALID_HANDLE, 0)
  ELSE IF slot = 0 THEN ReadBeginResult(c, TLV_STREAM_INVALID_HANDLE, 0)
  ELSE ReadBeginHeader(find_free_stream_handle(c), tag, c.index[slot].data_addr)

\* --------------------------------------------------------- tlv_read_chunk
\* len is the length requested (*len on entry).  Returns the context, the
\* code, the length stored to *len and the bytes delivered.
ReadChunkResult(c, ret, len, data) == [c |-> c, ret |-> ret, len |-> len, data |-> data]

ReadChunkAt(c, slot, len) ==
  LET h == c.streams[slot]
      remaining == h.total_len - h.processed_len
      actual_len == IF len > remaining THEN remaining ELSE len
      buf == ReadBytes(c.fram, h.data_addr + h.current_offset, actual_len)
  IN
  IF actual_len = 0 THEN ReadChunkResult(c, TLV_OK, 0, <<>>)
  ELSE IF PortFails(c)
  THEN ReadChunkResult(tlv_set_last_error(PortTick(c), PORT_ERROR).c, PORT_ERROR, len, <<>>)
  ELSE ReadChunkResult([PortTick(c) EXCEPT
                          !.streams[slot].crc16 = h.crc16 \o buf,
                          !.streams[slot].current_offset = h.current_offset + actual_len,
                          !.streams[slot].processed_len = h.processed_len + actual_len],
                       TLV_OK, actual_len, buf)

tlv_read_chunk(c, handle, len) ==
  LET slot == validate_and_get_handle(c, handle, TLV_STREAM_STATE_READING) IN
  IF len = 0
  THEN ReadChunkResult(tlv_set_last_error(c, TLV_ERROR_INVALID_PARAM).c,
                       TLV_ERROR_INVALID_PARAM, len, <<>>)
  ELSE IF slot < 0
  THEN ReadChunkResult(tlv_set_last_error(c, TLV_ERROR_INVALID_HANDLE).c,
                       TLV_ERROR_INVALID_HANDLE, len, <<>>)
  ELSE ReadChunkAt(c, slot, len)

\* ----------------------------------------------------------- tlv_read_end
ReadEndAt(c, h, handle) ==
  IF h.processed_len # h.total_len
  THEN tlv_set_last_error(release_stream_handle(c, handle), TLV_ERROR_INVALID_STATE)
  ELSE IF PortFails(c)
  THEN tlv_set_last_error(release_stream_handle(PortTick(c), handle), PORT_ERROR)
  ELSE IF ~CrcMatches(c.fram, h.data_addr + h.current_offset, h.crc16)
  THEN tlv_set_last_error(release_stream_handle(PortTick(c), handle), TLV_ERROR_CRC_FAILED)
  ELSE R(release_stream_handle(PortTick(c), handle), TLV_OK)

tlv_read_end(c, handle) ==
  LET slot == validate_and_get_handle(c, handle, TLV_STREAM_STATE_READING) IN
  IF slot < 0 THEN tlv_set_last_error(c, TLV_ERROR_INVALID_HANDLE)
  ELSE ReadEndAt(c, c.streams[slot], handle)

\* --------------------------------------------------------- tlv_read_abort
\* The function returns nothing; the code tells whether the handle was valid.
tlv_read_abort(c, handle) ==
  IF validate_and_get_handle(c, handle, TLV_STREAM_STATE_READING) < 0
  THEN R(c, TLV_ERROR_INVALID_HANDLE)
  ELSE R(release_stream_handle(c, handle), TLV_OK)

\* ================================================================ the system
\* The context the API functions work on, with no port call made yet.
Cur ==
  [state |-> state, ptrs |-> ptrs, header |-> header, index |-> index,
   snapshot |-> snapshot, fram |-> fram, streams |-> streams, err |-> g_last_error,
   n |-> 0, f |-> 0]
\* The context of an API call whose f-th port call fails.
Ctx(f) == [Cur EXCEPT !.f = f]
\* The fault of plan f happened during the call that ended in context c.
Fired(c) == c.f # 0 /\ c.n >= c.f

\* Media as delivered: blank, or carrying the image of an empty store (the
\* header of system_header_init, an empty index table, and their mirror).
FreshHeader == system_header_init([ptrs |-> TRUE, header |-> ZeroHeader]).c.header
ProvisionedFram ==
  LET hdr == [h |-> FreshHeader, crc |-> FreshHeader]
      idx == [ent |-> ZeroIndex, crc |-> ZeroIndex]
  IN [BlankFram EXCEPT !.hdr = hdr, !.idx = idx, !.bak = [hdr |-> hdr, idx |-> idx]]

\* No call yet.  A call is recorded with its code, whether the transport
\* failed in it, the call before it (was), what every tag read before it
\* (pre), whether it found the persisted index damaged and, for a call on a
\* write session, whether the session is the only one (solo); at is the
\* number of the port call that failed in it (0: none).
NoCall == [op |-> "none", tag |-> 0, ret |-> 0]
NoOp ==
  [op |-> "none", tag |-> 0, data |-> <<>>, ret |-> 0, fault |-> FALSE,
   was |-> NoCall, pre |-> <<>>, damaged |-> FALSE, solo |-> FALSE, at |-> 0]

\* The context after power-up: g_tlv_ctx, g_last_error and the static
\* mirrors are zero.
PowerUp(media) ==
  [state |-> TLV_STATE_UNINITIALIZED, ptrs |-> FALSE, header |-> ZeroHeader,
   index |-> ZeroIndex, snapshot |-> ZeroSnapshot, fram |-> media,
   streams |-> ZeroStreams, err |-> 0, n |-> 0, f |-> 0]

\* Capacity of the buffer the reads are made with.
ReadCap == 4
\* What every schema tag reads in context c.
ReadAll(c) ==
  [t \in SchemaTags |->
     LET r == tlv_read(c, t, ReadCap) IN [ret |-> r.ret, data |-> r.data]]
\* No tlv_backup_all has succeeded yet.
NoBackup == <<>>

\* hist records the calls made since power-up when it starts with the media
\* powered up on, and records nothing when it starts empty.
StartIn(c, ops, flt, h) ==
  /\ state = c.state
  /\ ptrs = c.ptrs
  /\ header = c.header
  /\ index = c.index
  /\ snapshot = c.snapshot
  /\ fram = c.fram
  /\ streams = c.streams
  /\ g_last_error = c.err
  /\ budget = [ops |-> ops, faults |-> flt]
  /\ last = NoOp
  /\ hist = h
  /\ backed = NoBackup

\* Power-up on blank or provisioned media.
InitBoot ==
  \/ StartIn(PowerUp(BlankFram), BootOps, 0, <<[NoOp EXCEPT !.op = "blank"]>>)
  \/ StartIn(PowerUp(ProvisionedFram), BootOps, 0, <<[NoOp EXCEPT !.op = "provisioned"]>>)
\* A store in service: provisioned media, tlv_init done.
InitStore == StartIn(tlv_init(PowerUp(ProvisionedFram)).c, MaxOps, 0, <<>>)
\* The same store, over a transport that may fail.
InitFault == StartIn(tlv_init(PowerUp(ProvisionedFram)).c, FaultOps, MaxFaults, <<>>)

\* The payloads written: for TAG_SYSTEM_CONFIG equal and different lengths,
\* equal and different bytes; one payload for the other tag.
PayloadsOf(t) == IF t = TAG_SYSTEM_CONFIG THEN {<<1>>, <<2>>, <<1, 1>>} ELSE {<<3>>}
FaultPlans == IF budget.faults > 0 THEN 0..MaxFaultAt ELSE {0}

\* The persisted header verifies and the persisted index table does not.
IndexDamaged ==
  /\ system_header_verify(fram.hdr.h, fram.hdr.crc) = TLV_OK
  /\ fram.idx.crc # fram.idx.ent

\* The record of a call.
Call(op, tag, data, ret, fault) ==
  [op |-> op, tag |-> tag, data |-> data, ret |-> ret, fault |-> fault,
   was |-> [op |-> last.op, tag |-> last.tag, ret |-> last.ret],
   pre |-> ReadAll(Cur), damaged |-> IndexDamaged, solo |-> FALSE, at |-> 0]

\* The API call returned r and is recorded as call: its context becomes the
\* state.
Step(r, op, tag, data, call) ==
  /\ budget.ops > 0
  /\ state' = r.c.state
  /\ ptrs' = r.c.ptrs
  /\ header' = r.c.header
  /\ index' = r.c.index
  /\ snapshot' = r.c.snapshot
  /\ fram' = r.c.fram
  /\ streams' = r.c.streams
  /\ g_last_error' = r.c.err
  /\ budget' = [ops |-> budget.ops - 1,
                faults |-> IF Fired(r.c) THEN budget.faults - 1 ELSE budget.faults]
  /\ last' = call
  /\ hist' = IF hist = <<>> THEN hist
             ELSE Append(hist, [NoOp EXCEPT !.op = op, !.tag = tag, !.data = data,
                                            !.ret = r.ret])
  /\ backed' = IF op = "backup_all" /\ r.ret = TLV_OK THEN ReadAll(Cur) ELSE backed

Commit(r, op, tag, data) ==
  Step(r, op, tag, data,
       [Call(op, tag, data, r.ret, Fired(r.c)) EXCEPT !.at = IF Fired(r.c) THEN r.c.f ELSE 0])

ApiInit == \E f \in FaultPlans : Commit(tlv_init(Ctx(f)), "init", 0, <<>>)
ApiDeinit == \E f \in FaultPlans : Commit(tlv_deinit(Ctx(f)), "deinit", 0, <<>>)
ApiFormat ==
  \E m \in {0, WRGV_TLV_SYSTEM_MAGIC} : \E f \in FaultPlans :
    Commit(tlv_format(Ctx(f), m), "format", 0, <<m>>)
ApiWrite ==
  \E t \in SchemaTags : \E d \in PayloadsOf(t) : \E f \in FaultPlans :
    Commit(tlv_write(Ctx(f), t, d), "write", t, d)
ApiRead ==
  \E t \in SchemaTags :
    LET r == tlv_read(Cur, t, ReadCap) IN
    /\ state' = r.c.state
    /\ ptrs' = r.c.ptrs
    /\ header' = r.c.header
    /\ index' = r.c.index
    /\ snapshot' = r.c.snapshot
    /\ fram' = r.c.fram
    /\ streams' = r.c.streams
    /\ g_last_error' = r.c.err
    /\ last' = [NoOp EXCEPT !.op = "read", !.tag = t, !.data = r.data, !.ret = r.ret]
    /\ UNCHANGED <<budget, hist, backed>>
ApiDelete ==
  \E t \in SchemaTags : \E f \in FaultPlans : Commit(tlv_delete(Ctx(f), t), "delete", t, <<>>)
\* tlv_defragment opens with the backup of the management area: the port
\* call that fails is one of the backup or one of the MaxFaultAt after it.
BackupCalls == tlv_backup_all_internal(Cur).c.n
DefragFaultPlans == IF budget.faults > 0 THEN 0..(BackupCalls + MaxFaultAt) ELSE {0}
ApiDefragment ==
  \E f \in DefragFaultPlans : Commit(tlv_defragment(Ctx(f)), "defragment", 0, <<>>)
ApiBackupAll == \E f \in FaultPlans : Commit(tlv_backup_all(Ctx(f)), "backup_all", 0, <<>>)
ApiRestore ==
  \E f \in FaultPlans : Commit(tlv_restore_from_backup(Ctx(f)), "restore", 0, <<>>)
\* The environment damages the persisted index table: its CRC no longer matches.
CorruptIndex ==
  /\ fram.idx.crc = fram.idx.ent
  /\ Commit(R([Cur EXCEPT !.fram.idx.crc = <<>>], TLV_OK), "corrupt", 0, <<>>)

NextBoot == ApiInit \/ ApiDeinit \/ ApiFormat \/ ApiWrite \/ ApiRead
SpecBoot == InitBoot /\ [][NextBoot]_vars

Next ==
  \/ ApiInit
  \/ ApiWrite
  \/ ApiDelete
  \/ ApiDefragment
  \/ ApiBackupAll
  \/ ApiRestore
  \/ CorruptIndex
Init == InitStore
Spec == Init /\ [][Next]_vars

NextFault == ApiInit \/ ApiWrite \/ ApiDelete
SpecFault == InitFault /\ [][NextFault]_vars

\* A store in service that holds TAG_SYSTEM_CONFIG: the third write of the
\* tag on the provisioned store is the first that succeeds.
Seed(c) == tlv_write(c, TAG_SYSTEM_CONFIG, <<1>>).c
InitLive ==
  StartIn(Seed(Seed(Seed(tlv_init(PowerUp(ProvisionedFram)).c))), RecoverOps, 0, <<>>)
NextRecover == ApiInit \/ ApiWrite \/ ApiBackupAll \/ ApiRestore \/ CorruptIndex
SpecRecover == InitLive /\ [][NextRecover]_vars

\* The store that holds TAG_SYSTEM_CONFIG, compacted and restored over a
\* transport that may fail.
InitCompact ==
  StartIn(Seed(Seed(Seed(tlv_init(PowerUp(ProvisionedFram)).c))), CompactOps, MaxFaults, <<>>)
NextCompact == ApiWrite \/ ApiDelete \/ ApiDefragment \/ ApiRestore
SpecCompact == InitCompact /\ [][NextCompact]_vars

\* The stream API.  The handles the caller holds are those of the slots.
Handles == {index_to_handle(i) : i \in StreamSlots}
Chunks == {<<7>>, <<8>>, <<7, 8>>}
\* The payload a write session has taken so far: its CRC content without
\* the four header fields.
Taken(h) == IF Len(h.crc16) > 4 THEN SubSeq(h.crc16, 5, Len(h.crc16)) ELSE <<>>
\* The session begun records what every tag read before it; it is solo when
\* no other slot is writing, and no session writing at that time is solo.
Began(r, base) ==
  LET slot == handle_to_index(r.ret)
      others == {i \in StreamSlots :
                   i # slot /\ r.c.streams[i].state = TLV_STREAM_STATE_WRITING}
  IN
  IF r.ret = TLV_STREAM_INVALID_HANDLE THEN r
  ELSE R([r.c EXCEPT !.streams =
            [i \in StreamSlots |->
               IF i = slot THEN [@[i] EXCEPT !.base = base, !.solo = (others = {})]
               ELSE IF i \in others THEN [@[i] EXCEPT !.solo = FALSE]
               ELSE @[i]]],
         r.ret)
\* A call on a session is recorded with the session's tag, the payload it
\* has taken (the call's chunk included) and what every tag read before it.
OnSession(r, op, handle, data) ==
  LET h == streams[handle_to_index(handle)] IN
  Step(r, op, h.tag, Taken(h) \o data,
       [Call(op, h.tag, Taken(h) \o data, r.ret, FALSE) EXCEPT
          !.pre = h.base, !.solo = h.solo])

ApiWriteBegin ==
  \E t \in SchemaTags : \E n \in 1..get_meta(t).max_length :
    LET r == Began(tlv_write_begin(Cur, t, n), ReadAll(Cur)) IN
    Step(r, "write_begin", t, <<>>,
         [Call("write_begin", t, <<>>, r.ret, FALSE) EXCEPT
            !.solo = r.ret # TLV_STREAM_INVALID_HANDLE
                     /\ r.c.streams[handle_to_index(r.ret)].solo])
ApiWriteChunk ==
  \E handle \in Handles : \E d \in Chunks :
    LET r == tlv_write_chunk(Cur, handle, d) IN
    OnSession(r, "write_chunk", handle, IF r.ret = TLV_OK THEN d ELSE <<>>)
ApiWriteEnd ==
  \E handle \in Handles : OnSession(tlv_write_end(Cur, handle), "write_end", handle, <<>>)
ApiWriteAbort ==
  \E handle \in Handles : OnSession(tlv_write_abort(Cur, handle), "write_abort", handle, <<>>)
ApiReadBegin ==
  \E t \in SchemaTags :
    LET r == tlv_read_begin(Cur, t) IN Commit(R(r.c, r.ret), "read_begin", t, <<>>)
ApiReadChunk ==
  \E handle \in Handles : \E len \in 1..2 :
    LET r == tlv_read_chunk(Cur, handle, len) IN
    Commit(R(r.c, r.ret), "read_chunk", streams[handle_to_index(handle)].tag, r.data)
ApiReadEnd ==
  \E handle \in Handles :
    Commit(tlv_read_end(Cur, handle), "read_end", streams[handle_to_index(handle)].tag, <<>>)
ApiReadAbort ==
  \E handle \in Handles :
    Commit(tlv_read_abort(Cur, handle), "read_abort",
           streams[handle_to_index(handle)].tag, <<>>)

\* The store that holds TAG_SYSTEM_CONFIG, used through the stream API.
InitStream ==
  StartIn(Seed(Seed(Seed(tlv_init(PowerUp(ProvisionedFram)).c))), StreamOps, 0, <<>>)
NextStream ==
  \/ ApiWriteBegin
  \/ ApiWriteChunk
  \/ ApiWriteEnd
  \/ ApiWriteAbort
  \/ ApiReadBegin
  \/ ApiReadChunk
  \/ ApiReadEnd
  \/ ApiReadAbort
SpecStream == InitStream /\ [][NextStream]_vars

\* The same store, taken out of service (tlv_deinit, tlv_format) and back
\* (tlv_init) while stream sessions are open.
InitGate ==
  StartIn(Seed(Seed(Seed(tlv_init(PowerUp(ProvisionedFram)).c))), GateOps, 0, <<>>)
NextGate ==
  \/ ApiWriteBegin
  \/ ApiWriteChunk
  \/ ApiReadBegin
  \/ ApiDeinit
  \/ ApiFormat
  \/ ApiInit
SpecGate == InitGate /\ [][NextGate]_vars

\* A store written by the firmware before: every entry of the index carries
\* version 1 (index->version = 1; tlv_index_save).
WrittenBefore(c) ==
  tlv_index_save([c EXCEPT !.index =
                    [i \in 1..TLV_MAX_TAG_COUNT |->
                       IF c.index[i].tag # 0 THEN [c.index[i] EXCEPT !.version = 1]
                       ELSE c.index[i]]]).c
\* The stores the firmware before left: TAG_SYSTEM_CONFIG written once or
\* twice, with or without the calibration record.
StoresBefore ==
  LET s0 == Seed(Seed(Seed(tlv_init(PowerUp(ProvisionedFram)).c)))
      s1 == {s0} \cup {tlv_write(s0, TAG_SYSTEM_CONFIG, d).c : d \in PayloadsOf(TAG_SYSTEM_CONFIG)}
      s2 == s1 \cup {tlv_write(c, TAG_SYSTEM_CALIBRATION, <<3>>).c : c \in s1}
  IN {[WrittenBefore(c) EXCEPT !.n = 0] : c \in s2}
InitMigrate == \E c \in StoresBefore : StartIn(c, MigrateOps, 0, <<>>)
NextMigrate == ApiRead \/ ApiWrite \/ ApiDelete \/ ApiInit
SpecMigrate == InitMigrate /\ [][NextMigrate]_vars

\* The store that holds TAG_SYSTEM_CONFIG, used through both APIs, with the
\* error ledger read and cleared in between.
ApiClearError == Commit(R(tlv_clear_error(Cur), TLV_OK), "clear_error", 0, <<>>)
InitLedger ==
  StartIn(Seed(Seed(Seed(tlv_init(PowerUp(ProvisionedFram)).c))), LedgerOps, 0, <<>>)
NextLedger ==
  \/ ApiWrite
  \/ ApiRead
  \/ ApiDelete
  \/ ApiWriteBegin
  \/ ApiWriteChunk
  \/ ApiWriteEnd
  \/ ApiClearError
SpecLedger == InitLedger /\ [][NextLedger]_vars

\* The store that holds TAG_SYSTEM_CONFIG, written, compacted and restored
\* while write sessions are open; it starts with no session, with a write
\* session of TAG_SYSTEM_CONFIG just begun in place, or, holding
\* TAG_SYSTEM_CALIBRATION too, with a relocating write session of
\* TAG_SYSTEM_CONFIG that has taken its payload.
SessionBegun(s, t, n) == Began(tlv_write_begin(s, t, n), ReadAll(s))
SessionTaken(b, d) == tlv_write_chunk(b.c, b.ret, d).c
StoresMixedOn(s0) ==
  {s0, SessionBegun(s0, TAG_SYSTEM_CONFIG, 1).c,
   SessionTaken(SessionBegun(tlv_write(s0, TAG_SYSTEM_CALIBRATION, <<3>>).c,
                             TAG_SYSTEM_CONFIG, 2), <<7, 8>>)}
StoresMixed == StoresMixedOn(Seed(Seed(Seed(tlv_init(PowerUp(ProvisionedFram)).c))))
InitMixed == \E c \in StoresMixed : StartIn(c, MixedOps, 0, <<>>)
NextMixed ==
  \/ ApiWrite
  \/ ApiDelete
  \/ ApiDefragment
  \/ ApiRestore
  \/ ApiWriteBegin
  \/ ApiWriteChunk
  \/ ApiWriteEnd
  \/ ApiWriteAbort
SpecMixed == InitMixed /\ [][NextMixed]_vars

\* Stores with one to TLV_MAX_TAG_COUNT live tags in every order of slots
\* and of addresses, as writes, deletes and rewrites leave them.  A layout
\* gives each index slot a tag and the place of its block, counted in blocks
\* from TLV_DATA_ADDR (<<0, 0>>: the slot is empty); the first block of the
\* region, and every place no slot names, is a block that was deleted.
Places == 1..TLV_MAX_TAG_COUNT
Layouts ==
  {lay \in [1..TLV_MAX_TAG_COUNT -> (MetaTags \X Places) \cup {<<0, 0>>}] :
     /\ \E i \in 1..TLV_MAX_TAG_COUNT : lay[i][1] # 0
     /\ \A i, j \in 1..TLV_MAX_TAG_COUNT :
          (i # j /\ lay[i][1] # 0 /\ lay[j][1] # 0)
          => (lay[i][1] # lay[j][1] /\ lay[i][2] # lay[j][2])}
PayloadOn(t) ==
  IF t = TAG_SYSTEM_CONFIG THEN <<1>> ELSE IF t = TAG_SYSTEM_CALIBRATION THEN <<3>> ELSE <<5>>
RECURSIVE Laid(_, _, _)
Laid(c, lay, i) ==
  LET tag == lay[i][1]
      addr == TLV_DATA_ADDR + lay[i][2] * TLV_BLOCK_SIZE(1)
  IN
  IF i > TLV_MAX_TAG_COUNT THEN c
  ELSE IF tag = 0 THEN Laid(c, lay, i + 1)
  ELSE Laid([write_data_block([c EXCEPT !.n = 0], tag, PayloadOn(tag), addr).c EXCEPT
               !.index[i] = [tag |-> tag, flags |-> TLV_FLAG_VALID,
                             version |-> get_meta(tag).version, data_addr |-> addr]],
            lay, i + 1)
StoreFull(lay) ==
  LET k == Cardinality({i \in 1..TLV_MAX_TAG_COUNT : lay[i][1] # 0})
      blocks == TLV_MAX_TAG_COUNT + 1
      c1 == Laid(tlv_init(PowerUp(ProvisionedFram)).c, lay, 1)
      c2 == [c1 EXCEPT
               !.n = 0,
               !.header.tag_count = k,
               !.header.next_free_addr = TLV_DATA_ADDR + blocks * TLV_BLOCK_SIZE(1),
               !.header.used_space = k * TLV_BLOCK_SIZE(1),
               !.header.free_space = RegionSize - blocks * TLV_BLOCK_SIZE(1),
               !.header.fragment_count = blocks - k,
               !.header.fragment_size = (blocks - k) * TLV_BLOCK_SIZE(1),
               !.header.total_writes = blocks]
  IN system_header_save(tlv_index_save(c2).c).c
InitFull == \E lay \in Layouts : StartIn(StoreFull(lay), FullOps, 0, <<>>)
NextFull == ApiDefragment \/ ApiWrite \/ ApiDelete
SpecFull == InitFull /\ [][NextFull]_vars

\* ================================================================ properties
\* Call i of hist is op with return code ret.
Did(i, op, ret) == i <= Len(hist) /\ hist[i].op = op /\ hist[i].ret = ret
\* What tag t reads now, with a buffer of ReadCap bytes.
ReadNow(t) == ReadAll(Cur)[t]
Reads(t, v) == ReadNow(t) = [ret |-> TLV_OK, data |-> v]
ExistsNow(t) == tlv_exists(Cur, t)

\* C1: from blank media, init, format(0), init return FirstBoot, Ok, Ok and
\* leave the state INITIALIZED; a following write of TAG_SYSTEM_CONFIG with
\* a full-length payload returns Ok, and the tag then reads that payload.
C1_BlankBootSequence ==
  (/\ Len(hist) >= 4
   /\ hist[1].op = "blank"
   /\ hist[2].op = "init"
   /\ hist[3].op = "format" /\ hist[3].data = <<0>>
   /\ hist[4].op = "init")
  => /\ hist[2].ret = TLV_INIT_FIRST_BOOT
     /\ hist[3].ret = TLV_OK
     /\ hist[4].ret = TLV_INIT_OK
     /\ Len(hist) = 4 => state = TLV_STATE_INITIALIZED
     /\ (Len(hist) = 5 /\ hist[5].op = "write" /\ hist[5].tag = TAG_SYSTEM_CONFIG
           /\ hist[5].data = <<1, 1>>)
        => hist[5].ret = TLV_OK /\ Reads(TAG_SYSTEM_CONFIG, <<1, 1>>)

\* C6: for every magic m, after format(m) returns Ok the next init returns
\* Ok or Recovered, and then no tag exists.
C6_FormatThenInit ==
  \A i \in 2..Len(hist) :
    (hist[i].op = "init" /\ Did(i - 1, "format", TLV_OK))
    => /\ hist[i].ret \in {TLV_INIT_OK, TLV_INIT_RECOVERED}
       /\ i = Len(hist) => \A t \in SchemaTags : ~ExistsNow(t)

\* The last step was a successful write.
Wrote == last.op = "write" /\ last.ret = TLV_OK
\* The context after a restart: power-up on the present media, then tlv_init.
Reboot == tlv_init(PowerUp(fram)).c

\* C2: on an initialized store, when write(T, V) returns OK, a following
\* read(T) with a large enough buffer returns OK and yields exactly V.
C2_WriteThenRead == Wrote => Reads(last.tag, last.data)

\* C3: after write(T, V1) and then write(T, V2) both return OK, read(T)
\* returns V2.
C3_SecondWriteWins ==
  (Wrote /\ last.was = [op |-> "write", tag |-> last.tag, ret |-> TLV_OK])
  => Reads(last.tag, last.data)

\* C4: when write(T, V) returns a failure code, every tag, T included, reads
\* what it read before the call.
C4_FailedWriteChangesNothing ==
  (last.op = "write" /\ last.ret # TLV_OK) => ReadAll(Cur) = last.pre

\* C5: after delete(T) returns OK, exists(T) is false, immediately and after
\* the store is re-initialised from media.
C5_DeleteIsPersisted ==
  (last.op = "delete" /\ last.ret = TLV_OK)
  => ~ExistsNow(last.tag) /\ ~tlv_exists(Reboot, last.tag)

\* C9: after backup_all returned OK and any mutations, a restore_from_backup
\* that returns OK makes every tag read what it read when the backup was taken.
C9_RestoreReturnsBackupValues ==
  (last.op = "restore" /\ last.ret = TLV_OK /\ backed # NoBackup)
  => \A t \in SchemaTags : ReadNow(t) = backed[t]

\* The backup region holds an index table whose CRC matches.
BackupSound == fram.bak.idx.crc = fram.bak.idx.ent

\* C10: when init finds a valid header and an index that fails its CRC, and
\* backup_all has made a backup, init returns Recovered, the state becomes
\* INITIALIZED and every tag written before the backup reads back its value.
C10_InitRecoversFromBackup ==
  (last.op = "init" /\ last.damaged /\ backed # NoBackup /\ BackupSound)
  => /\ last.ret = TLV_INIT_RECOVERED
     /\ state = TLV_STATE_INITIALIZED
     /\ \A t \in SchemaTags : backed[t].ret = TLV_OK => ReadNow(t) = backed[t]

\* A stream read of tag in context c: read_begin, read_chunk of one byte
\* until no byte is left, read_end.  Returns the code and the bytes.
RECURSIVE ReadChunks(_, _, _)
ReadChunks(c, handle, got) ==
  LET r == tlv_read_chunk(c, handle, 1) IN
  IF r.ret # TLV_OK THEN [c |-> r.c, ret |-> r.ret, data |-> got]
  ELSE IF r.len = 0 THEN [c |-> r.c, ret |-> TLV_OK, data |-> got]
  ELSE ReadChunks(r.c, handle, got \o r.data)
StreamReadFrom(rb) ==
  LET rc == ReadChunks(rb.c, rb.ret, <<>>) IN
  IF rb.ret = TLV_STREAM_INVALID_HANDLE
  THEN [ret |-> TLV_ERROR_INVALID_HANDLE, data |-> <<>>]
  ELSE IF rc.ret # TLV_OK THEN [ret |-> rc.ret, data |-> rc.data]
  ELSE [ret |-> tlv_read_end(rc.c, rb.ret).ret, data |-> rc.data]
StreamRead(c, tag) == StreamReadFrom(tlv_read_begin(c, tag))

\* C7: for a schema tag T with or without an index entry, after write_begin
\* gave a handle, the chunks totalling the announced length returned OK and
\* write_end returned OK (no other write session open meanwhile), T exists
\* and a stream read delivers the same bytes in order, with read_end
\* returning OK.
C7_StreamWriteThenStreamRead ==
  (last.op = "write_end" /\ last.ret = TLV_OK /\ last.solo)
  => /\ ExistsNow(last.tag)
     /\ StreamRead(Cur, last.tag) = [ret |-> TLV_OK, data |-> last.data]

\* The last call left a write session open or aborted it, and no other
\* write session has been open meanwhile.
SessionOpenOrAborted ==
  /\ last.solo
  /\ \/ last.op = "write_begin" /\ last.ret # TLV_STREAM_INVALID_HANDLE
     \/ last.op \in {"write_chunk", "write_abort"} /\ last.ret = TLV_OK

\* C8: while a write session for T is open (after write_begin and after each
\* write_chunk) and after write_abort, read(T) returns what it returned
\* before the session began.
C8_OpenSessionInvisible ==
  SessionOpenOrAborted => ReadNow(last.tag) = last.pre[last.tag]

\* The slots of the live entries, and the size of the block stored at addr.
LiveSlots == {i \in 1..TLV_MAX_TAG_COUNT : IsLive(index[i])}
BlockSizeAt(addr) == TLV_BLOCK_SIZE(ReadHeader(fram, addr).length)
\* The live entries are the first slots of the index, their blocks carry
\* their tags and lie back to back from TLV_DATA_ADDR to next_free_addr in
\* index order, and the header counts them with no fragment left.
Compacted ==
  LET k == Cardinality(LiveSlots) IN
  /\ LiveSlots = 1..k
  /\ header.tag_count = k
  /\ \A i \in 1..k :
       /\ ReadHeader(fram, index[i].data_addr).tag = index[i].tag
       /\ index[i].data_addr =
            IF i = 1 THEN TLV_DATA_ADDR
            ELSE index[i - 1].data_addr + BlockSizeAt(index[i - 1].data_addr)
  /\ k > 0 => header.next_free_addr = index[k].data_addr + BlockSizeAt(index[k].data_addr)
  /\ header.fragment_count = 0
  /\ header.fragment_size = 0
  /\ header.used_space = header.next_free_addr - TLV_DATA_ADDR
Defragmented == last.op = "defragment" /\ last.ret = TLV_OK /\ LiveSlots # {}

\* C11: after defragment returns OK on a store with at least one live tag,
\* the live blocks occupy [TLV_DATA_ADDR, next_free_addr) contiguously in
\* index order, fragment_count = fragment_size = 0, tag_count is the number
\* of live entries and used_space = next_free_addr - TLV_DATA_ADDR.
C11_DefragmentCompacts == Defragmented => Compacted

\* What every tag reads after a restore_from_backup made now.
Restored == tlv_restore_from_backup(Cur)
\* The last call was a defragment that failed on a port call made after its
\* opening backup of the management area.
DefragmentFailed ==
  /\ last.op = "defragment"
  /\ last.ret # TLV_OK
  /\ last.at > BackupCalls

\* C12: when defragment fails part-way on a transport error (while blocks
\* are moved or at the final save of index and header), a following
\* restore_from_backup that succeeds makes every tag that was readable
\* before the defragment call read its previous value.
C12_FailedDefragmentRestorable ==
  (DefragmentFailed /\ Restored.ret = TLV_OK)
  => \A t \in SchemaTags :
       last.pre[t].ret = TLV_OK => ReadAll(Restored.c)[t] = last.pre[t]

\* Context c has the header scalars, the index and the data region of the
\* present state (last_update_time is the constant of the port's clock).
SameStore(c) == c.header = header /\ c.index = index /\ c.fram.data = fram.data
\* The last call was a defragment that returned OK with no port call failing.
DefragmentDone == last.op = "defragment" /\ last.ret = TLV_OK /\ ~last.fault

\* C13: defragment is idempotent: after a defragment, with or without live
\* tags, a second defragment returns OK and leaves the header scalars, the
\* index and the data region as the first left them.
C13_DefragmentIdempotent ==
  DefragmentDone => tlv_defragment(Cur).ret = TLV_OK /\ SameStore(tlv_defragment(Cur).c)
\* A defragment has moved the blocks of two live tags down to TLV_DATA_ADDR.
C13_Witness ==
  /\ DefragmentDone
  /\ \E i \in LiveSlots : index[i].tag = TAG_SYSTEM_CALIBRATION
  /\ index[1].data_addr = TLV_DATA_ADDR

\* The index slots that hold no entry.
FreeSlots == {i \in 1..TLV_MAX_TAG_COUNT : index[i].tag = 0}
\* What tlv_write(tag, data) would return now, over a transport that works.
WriteNow(t, d) == tlv_write(Cur, t, d).ret

\* C14: NoIndexSpace is never reported while an index slot is free: in every
\* state of the store in service with a free slot, no write of a schema tag
\* returns TLV_ERROR_NO_INDEX_SPACE.
C14_NoIndexSpaceOnlyWhenFull ==
  (state = TLV_STATE_INITIALIZED /\ FreeSlots # {})
  => \A t \in SchemaTags : \A d \in PayloadsOf(t) :
       WriteNow(t, d) # TLV_ERROR_NO_INDEX_SPACE

\* Bytes left in the data region past next_free_addr.
Remaining == TLV_BACKUP_ADDR - header.next_free_addr
\* tlv_write(t, d) needs a new block: t is not live, or its block is smaller.
NeedsBlock(t, d) ==
  LET idx == tlv_index_find(Cur, t) IN
  idx = 0 \/ TLV_BLOCK_SIZE(Len(d)) > BlockSizeAt(index[idx].data_addr)
\* A slot is free by the count tlv_write checks and in the table.
SlotFree == header.tag_count < TLV_MAX_TAG_COUNT /\ FreeSlots # {}

\* C15: in the store in service with a free index slot, a write that needs
\* a new block of n bytes succeeds when exactly n bytes remain in the data
\* region and returns TLV_ERROR_NO_MEMORY_SPACE when fewer than n remain.
C15_AllocationBoundary ==
  (state = TLV_STATE_INITIALIZED /\ SlotFree)
  => \A t \in SchemaTags : \A d \in PayloadsOf(t) :
       NeedsBlock(t, d) =>
         /\ Remaining = TLV_BLOCK_SIZE(Len(d)) => WriteNow(t, d) = TLV_OK
         /\ Remaining < TLV_BLOCK_SIZE(Len(d)) => WriteNow(t, d) = TLV_ERROR_NO_MEMORY_SPACE

\* The slot of the live entry of t (0: none) and the size of its block.
LiveSlot(t) == tlv_index_find(Cur, t)
OldBlockSize(t) == BlockSizeAt(index[LiveSlot(t)].data_addr)
\* The address of the live block of t in context c.
AddrOf(c, t) == c.index[tlv_index_find(c, t)].data_addr

\* The accounting of an update of the live tag t with d that ends in context
\* c: in place for a block no larger than the old one, relocated for a
\* larger one.
Accounted(t, d, c) ==
  IF TLV_BLOCK_SIZE(Len(d)) <= OldBlockSize(t)
  THEN /\ AddrOf(c, t) = index[LiveSlot(t)].data_addr
       /\ c.header.fragment_count = header.fragment_count
       /\ c.header.fragment_size = header.fragment_size
  ELSE /\ c.header.fragment_count = header.fragment_count + 1
       /\ c.header.fragment_size = header.fragment_size + OldBlockSize(t)

\* C16: a successful update of a live tag with a block no larger than the
\* old one keeps the address, fragment_count and fragment_size; with a
\* larger block it adds 1 to fragment_count and the old block size to
\* fragment_size.
C16_FragmentAccounting ==
  state = TLV_STATE_INITIALIZED
  => \A t \in SchemaTags : \A d \in PayloadsOf(t) :
       LET w == tlv_write(Cur, t, d) IN
       (LiveSlot(t) # 0 /\ w.ret = TLV_OK) => Accounted(t, d, w.c)

\* The share of the data region, in percent, that is allocated and not in
\* use once the update of t with d is accounted.
FragmentationAfter(t, d) ==
  LET new == TLV_BLOCK_SIZE(Len(d))
      old == OldBlockSize(t)
      allocated == header.next_free_addr - TLV_DATA_ADDR + (IF new <= old THEN 0 ELSE new)
      used == header.used_space - old + new
  IN ((allocated - used) * 100) \div RegionSize

\* C16 (amended): the accounting of C16 holds for every successful update
\* that leaves the fragmentation below TLV_AUTO_DEFRAG_THRESHOLD; an update
\* that reaches the threshold ends with the automatic defragmentation, and
\* fragment_count and fragment_size are 0 after it.
C16_FragmentAccountingUnlessCompacted ==
  state = TLV_STATE_INITIALIZED
  => \A t \in SchemaTags : \A d \in PayloadsOf(t) :
       LET w == tlv_write(Cur, t, d) IN
       (LiveSlot(t) # 0 /\ w.ret = TLV_OK)
       => IF FragmentationAfter(t, d) < TLV_AUTO_DEFRAG_THRESHOLD
          THEN Accounted(t, d, w.c)
          ELSE w.c.header.fragment_count = 0 /\ w.c.header.fragment_size = 0

\* An update has relocated the one-byte block of a tag for a two-byte
\* payload: one fragment of 14 + 1 + 2 bytes is accounted.
C16_Witness ==
  /\ Wrote
  /\ last.pre[last.tag].ret = TLV_OK
  /\ Len(last.pre[last.tag].data) = 1
  /\ Len(last.data) = 2
  /\ header.fragment_count = 1
  /\ header.fragment_size = TLV_BLOCK_SIZE(1)

\* The handles a caller may pass: those of the slots, the invalid handle, a
\* handle without the magic and one whose slot number is out of range.
AnyHandles ==
  Handles \cup {TLV_STREAM_INVALID_HANDLE, 1, HighHalf(TLV_STREAM_MAGIC) + TLV_MAX_STREAM_HANDLES}
\* The slot the handle names is in state st.
SlotIs(handle, st) ==
  /\ HighHalf(handle) = HighHalf(TLV_STREAM_MAGIC)
  /\ LowHalf(handle) \in StreamSlots
  /\ streams[LowHalf(handle)].state = st
\* The call that ended in r was refused for its handle and changed nothing.
Refused(r) ==
  /\ r.ret = TLV_ERROR_INVALID_HANDLE
  /\ r.c.streams = streams
  /\ r.c.header = header
  /\ r.c.index = index
  /\ r.c.fram = fram

\* C17: a stream operation called with a handle whose slot is not in the
\* state the operation expects is refused with TLV_ERROR_INVALID_HANDLE (an
\* abort does nothing) and changes neither the session pool, the header, the
\* index nor the media.
C17_MisusedHandleRefused ==
  \A handle \in AnyHandles :
    /\ ~SlotIs(handle, TLV_STREAM_STATE_WRITING)
       => /\ \A d \in Chunks : Refused(tlv_write_chunk(Cur, handle, d))
          /\ Refused(tlv_write_end(Cur, handle))
          /\ Refused(tlv_write_abort(Cur, handle))
    /\ ~SlotIs(handle, TLV_STREAM_STATE_READING)
       => /\ \A len \in 1..2 : Refused(tlv_read_chunk(Cur, handle, len))
          /\ Refused(tlv_read_end(Cur, handle))
          /\ Refused(tlv_read_abort(Cur, handle))

\* A write session has been ended and its slot is idle, while the other slot
\* holds a read session: the handle of the first is stale and the handle of
\* the second is a read handle.
C17_Witness ==
  /\ last.op = "write_end"
  /\ last.ret = TLV_OK
  /\ \E a, b \in Handles :
       /\ SlotIs(a, TLV_STREAM_STATE_IDLE)
       /\ SlotIs(b, TLV_STREAM_STATE_READING)

\* The call on the stale handle, made in context c and ended in r, was
\* refused and left the session pool of c as it was.
StaleRefused(c, r) == r.ret = TLV_ERROR_INVALID_HANDLE /\ r.c.streams = c.streams
\* The session begun with handle again took the slot of handle stale.
Reuses(again, stale) ==
  again # TLV_STREAM_INVALID_HANDLE /\ LowHalf(again) = LowHalf(stale)

\* C18: when the session of a handle is released (here aborted) and the next
\* begin takes its slot, the new handle differs from the released one, and a
\* call on the released handle is refused with TLV_ERROR_INVALID_HANDLE and
\* leaves the new session untouched.
C18_StaleHandleDistinguishable ==
  \A stale \in Handles :
    /\ SlotIs(stale, TLV_STREAM_STATE_WRITING)
       => \A t \in SchemaTags :
            LET again == tlv_write_begin(tlv_write_abort(Cur, stale).c, t, 1) IN
            Reuses(again.ret, stale)
            => /\ again.ret # stale
               /\ \A d \in Chunks : StaleRefused(again.c, tlv_write_chunk(again.c, stale, d))
    /\ SlotIs(stale, TLV_STREAM_STATE_READING)
       => \A t \in SchemaTags :
            LET again == tlv_read_begin(tlv_read_abort(Cur, stale).c, t) IN
            Reuses(again.ret, stale)
            => /\ again.ret # stale
               /\ \A len \in 1..2 : StaleRefused(again.c, tlv_read_chunk(again.c, stale, len))

\* The call that ended in r was rejected and changed neither the header,
\* the index table nor the media; Kept alone for a call that returns nothing.
Kept(c) == c.header = header /\ c.index = index /\ c.fram = fram
Gated(r) == r.ret # TLV_OK /\ Kept(r.c)

\* C19: outside TLV_STATE_INITIALIZED every data and maintenance operation
\* (write, read, delete, defragment, the stream begins and, on every handle,
\* chunk, end and abort) is rejected and changes neither the header, the
\* index table nor the media.  tlv_write_end and tlv_write_abort go through
\* g_tlv_ctx.header, which tlv_deinit sets to NULL: they are stated for the
\* states in which the pointers are set.
C19_OnlyInService ==
  state # TLV_STATE_INITIALIZED
  => /\ \A t \in SchemaTags :
          /\ \A d \in PayloadsOf(t) : Gated(tlv_write(Cur, t, d))
          /\ tlv_read(Cur, t, ReadCap).ret # TLV_OK
          /\ Gated(tlv_delete(Cur, t))
          /\ LET wb == tlv_write_begin(Cur, t, 1) IN
             wb.ret = TLV_STREAM_INVALID_HANDLE /\ Kept(wb.c)
          /\ LET rb == tlv_read_begin(Cur, t) IN
             rb.ret = TLV_STREAM_INVALID_HANDLE /\ Kept(rb.c)
     /\ Gated(tlv_defragment(Cur))
     /\ \A handle \in Handles :
          /\ \A d \in Chunks : Gated(tlv_write_chunk(Cur, handle, d))
          /\ ptrs => Gated(tlv_write_end(Cur, handle))
          /\ ptrs => Kept(tlv_write_abort(Cur, handle).c)
          /\ \A len \in 1..2 : Gated(tlv_read_chunk(Cur, handle, len))
          /\ Gated(tlv_read_end(Cur, handle))
          /\ Kept(tlv_read_abort(Cur, handle).c)

\* The payload length in the block header of the live tag t.
StoredLength(t) == ReadHeader(fram, index[LiveSlot(t)].data_addr).length

\* C20: tlv_read of a live tag with a buffer shorter than the stored payload
\* returns TLV_ERROR_NO_BUFFER_MEMORY and leaves the stored payload length
\* in *len.
C20_ShortBufferReportsLength ==
  state = TLV_STATE_INITIALIZED
  => \A t \in SchemaTags :
       LiveSlot(t) # 0
       => \A cap \in 1..(StoredLength(t) - 1) :
            LET r == tlv_read(Cur, t, cap) IN
            r.ret = TLV_ERROR_NO_BUFFER_MEMORY /\ r.len = StoredLength(t)

\* The live entry of t carries a version lower than the schema's.
Outdated(c, t) ==
  /\ tlv_index_find(c, t) # 0
  /\ c.index[tlv_index_find(c, t)].version < get_meta(t).version
\* The persisted index entry of tag t carries the schema version.
PersistedCurrent(c, t) ==
  \E i \in 1..TLV_MAX_TAG_COUNT :
    /\ c.fram.idx.ent[i].tag = t
    /\ HasValid(c.fram.idx.ent[i].flags)
    /\ c.fram.idx.ent[i].version = get_meta(t).version
\* What the migration of the stored block of t gives.
MigrationOf(t) ==
  LET rd == read_data_block(Cur, index[LiveSlot(t)].data_addr, ReadCap) IN
  IF rd.ret = TLV_OK
  THEN tlv_migrate_tag(t, rd.data, rd.len, ReadCap, index[LiveSlot(t)].version)
  ELSE Migrated(rd.ret, 0, <<>>)
ReadOutdated(t, r, mg, again) ==
  /\ r.ret = TLV_OK
  /\ r.data = mg.data
  /\ r.len = mg.len
  /\ PersistedCurrent(r.c, t)
  /\ ~Outdated(r.c, t)
  /\ again.ret = TLV_OK
  /\ again.data = r.data

\* C21: tlv_read of a tag whose entry carries a version lower than the
\* schema's, with a migration that succeeds, returns TLV_OK with the migrated
\* payload and its length, leaves the persisted index entry at the schema
\* version, and the tlv_read that follows returns the same payload with no
\* migration.
C21_ReadMigratesOnce ==
  state = TLV_STATE_INITIALIZED
  => \A t \in SchemaTags :
       Outdated(Cur, t) /\ MigrationOf(t).ret = TLV_OK
       => LET r == tlv_read(Cur, t, ReadCap) IN
          ReadOutdated(t, r, MigrationOf(t), tlv_read([r.c EXCEPT !.n = 0], t, ReadCap))

\* The migration of the stored block of t fails with a code other than
\* TLV_ERROR_NO_BUFFER_MEMORY.
MigrationFails(t) ==
  /\ Outdated(Cur, t)
  /\ read_data_block(Cur, index[LiveSlot(t)].data_addr, ReadCap).ret = TLV_OK
  /\ MigrationOf(t).ret \notin {TLV_OK, TLV_ERROR_NO_BUFFER_MEMORY}
\* The read r returned the stored payload of t.
ReadStored(t, r) ==
  /\ r.ret = TLV_OK
  /\ r.data = read_data_block(Cur, index[LiveSlot(t)].data_addr, ReadCap).data

\* C22: when the migration fails during tlv_read with a code other than
\* TLV_ERROR_NO_BUFFER_MEMORY, tlv_read returns the stored payload unchanged
\* and the error ledger holds the code of the migration failure.
C22_MigrationFailureRecorded ==
  state = TLV_STATE_INITIALIZED
  => \A t \in SchemaTags :
       MigrationFails(t)
       => LET r == tlv_read(Cur, t, ReadCap) IN
          ReadStored(t, r) /\ tlv_get_last_error(r.c) = MigrationOf(t).ret

\* The operations that return a code.
CodeOps == {"write", "read", "delete", "write_chunk", "write_end"}

\* C23: after a public operation has returned a failure code,
\* tlv_get_last_error reports that code.
C23_LastErrorReportsFailure ==
  (last.op \in CodeOps /\ last.ret # TLV_OK) => tlv_get_last_error(Cur) = last.ret

\* The bytes of the block the entry of slot i points at.
BlockRange(i) == index[i].data_addr..(index[i].data_addr + BlockSizeAt(index[i].data_addr) - 1)
\* The allocated part of the data region.
Allocated == TLV_DATA_ADDR..(header.next_free_addr - 1)

\* C24: the blocks of distinct valid index entries are pairwise disjoint and
\* lie between TLV_DATA_ADDR and next_free_addr.
C24_LiveBlocksDisjointAndAllocated ==
  state = TLV_STATE_INITIALIZED
  => /\ \A i \in LiveSlots : BlockRange(i) \subseteq Allocated
     /\ \A i, j \in LiveSlots : i # j => BlockRange(i) \cap BlockRange(j) = {}

\* The block the entry of slot i points at carries the entry's tag and a
\* trailing CRC16 that matches its header and payload.
BlockSound(i) ==
  LET addr == index[i].data_addr
      h == ReadHeader(fram, addr)
  IN
  /\ h.tag = index[i].tag
  /\ CrcMatches(fram, addr + BlockHeaderSize + h.length,
                HeaderTuple(h) \o ReadBytes(fram, addr + BlockHeaderSize, h.length))

\* C25: after every public operation, with write sessions open or not, every
\* valid index entry points at a block whose header carries the entry's tag
\* and whose trailing CRC verifies.
C25_ValidEntriesPointAtSoundBlocks ==
  state = TLV_STATE_INITIALIZED => \A i \in LiveSlots : BlockSound(i)

\* What tag t of the schema reads in context c.
ReadIn(c, t) ==
  LET r == tlv_read([c EXCEPT !.n = 0], t, ReadCap) IN [ret |-> r.ret, data |-> r.data]

\* C26: a tlv_defragment that returns TLV_OK leaves every readable tag
\* reading the payload it read before, whatever the number of live tags (up
\* to a full index) and the order of their addresses in the index.
C26_DefragmentKeepsPayloads ==
  state = TLV_STATE_INITIALIZED
  => LET d == tlv_defragment(Cur) IN
     d.ret = TLV_OK
     => \A t \in MetaTags : ReadIn(Cur, t).ret = TLV_OK => ReadIn(d.c, t) = ReadIn(Cur, t)

\* The six bookkeeping scalars of a header.
Scalars(h) ==
  <<h.next_free_addr, h.used_space, h.free_space, h.fragment_count, h.fragment_size,
    h.tag_count>>
\* The call that returned r failed with the scalars as they are now.
FailedClean(r, ok) == r.ret # ok => Scalars(r.c.header) = Scalars(header)

\* The call on a write session that returned r failed with the scalars as
\* they are now, or as the snapshot of the session's tlv_write_begin has them.
FailedRolledBack(r) ==
  r.ret # TLV_OK
  => \/ Scalars(r.c.header) = Scalars(header)
     \/ snapshot.is_active /\ Scalars(r.c.header) = Scalars(snapshot)

\* C27: a tlv_write, tlv_write_begin, tlv_write_chunk or tlv_write_end that
\* fails leaves next_free_addr, used_space, free_space, fragment_count,
\* fragment_size and tag_count as they were when the operation started (for
\* a call on a write session: when it was called or when the session began).
C27_FailedWriteKeepsScalars ==
  state = TLV_STATE_INITIALIZED
  => /\ \A t \in SchemaTags : \A d \in PayloadsOf(t) :
          FailedClean(tlv_write(Cur, t, d), TLV_OK)
     /\ \A t \in SchemaTags : \A n \in 1..get_meta(t).max_length :
          LET b == tlv_write_begin(Cur, t, n) IN
          b.ret = TLV_STREAM_INVALID_HANDLE => Scalars(b.c.header) = Scalars(header)
     /\ \A handle \in Handles :
          /\ \A d \in Chunks : FailedRolledBack(tlv_write_chunk(Cur, handle, d))
          /\ FailedRolledBack(tlv_write_end(Cur, handle))

\* A write session is open.
SessionOpen == \E i \in StreamSlots : streams[i].state = TLV_STREAM_STATE_WRITING

\* C28: while a write session is open (after its tlv_write_begin and before
\* its tlv_write_end or tlv_write_abort) no tlv_write and no further
\* tlv_write_begin proceeds.
C28_NoNestedWrites ==
  (state = TLV_STATE_INITIALIZED /\ SessionOpen)
  => /\ \A t \in SchemaTags : \A d \in PayloadsOf(t) : tlv_write(Cur, t, d).ret # TLV_OK
     /\ \A t \in SchemaTags : \A n \in 1..get_meta(t).max_length :
          tlv_write_begin(Cur, t, n).ret = TLV_STREAM_INVALID_HANDLE

\* The f-th port call of tlv_write(t, d) fails inside write_data_block.
BlockWriteFails(t, d, f) ==
  LET p == WritePlace(Ctx(f), t, Len(d)) IN
  p.ret = TLV_OK /\ write_data_block(p.c, t, d, p.target_addr).ret # TLV_OK

\* C29: a tlv_write whose write of the data block fails rolls the scalars
\* back, persists the rolled-back header and returns a code other than
\* TLV_OK, also when the save of the rolled-back header succeeds.
C29_FailedBlockWriteReported ==
  (state = TLV_STATE_INITIALIZED /\ ptrs)
  => \A t \in SchemaTags : \A d \in PayloadsOf(t) : \A f \in 1..MaxFaultAt :
       BlockWriteFails(t, d, f)
       => LET r == tlv_write(Ctx(f), t, d) IN
          /\ Scalars(r.c.header) = Scalars(header)
          /\ r.c.fram.hdr.h = r.c.header
          /\ r.ret # TLV_OK

\* C30: once a public operation has returned, header.tag_count is the
\* number of index slots whose tag is not zero and whose VALID flag is set.
C30_TagCountCountsValidSlots ==
  state = TLV_STATE_INITIALIZED => header.tag_count = Cardinality(LiveSlots)

\* The sum of the sizes of the blocks that the index slots of S point at.
RECURSIVE BlockSizes(_)
BlockSizes(S) ==
  IF S = {} THEN 0
  ELSE LET i == CHOOSE j \in S : TRUE IN
       BlockSizeAt(index[i].data_addr) + BlockSizes(S \ {i})

\* C31: once a public operation has returned, header.used_space is the sum
\* of the sizes (header, payload and CRC) of the blocks that the valid index
\* entries point at.
C31_UsedSpaceSumsLiveBlocks ==
  state = TLV_STATE_INITIALIZED => header.used_space = BlockSizes(LiveSlots)

\* C32: once a public operation has returned (tlv_write_abort and a failed
\* tlv_write_end included), fragment_size + used_space is at most
\* next_free_addr - TLV_DATA_ADDR, which is at most data_region_size: what a
\* rollback gave back is not counted as a fragment too.
C32_FragmentsWithinAllocation ==
  state = TLV_STATE_INITIALIZED
  => /\ header.fragment_size + header.used_space <= header.next_free_addr - TLV_DATA_ADDR
     /\ header.next_free_addr - TLV_DATA_ADDR <= header.data_region_size

\* C33: once a public operation has returned, used_space + free_space (in
\* the arithmetic of the header's words) is data_region_size.
C33_UsedPlusFreeIsRegion ==
  state = TLV_STATE_INITIALIZED
  => Add32(header.used_space, header.free_space) = header.data_region_size

\* The operations that end a change of the store.
CompletingOps == {"write", "delete", "write_end", "write_abort"}
\* The header scalars and the index table on media are those in RAM.
MediaAgrees == Scalars(fram.hdr.h) = Scalars(header) /\ fram.idx.ent = index

\* C34: after a tlv_write, tlv_delete, tlv_write_end or tlv_write_abort that
\* completed successfully, the header and the index table persisted on
\* media equal their mirrors in RAM.
C34_MediaMirrorsRam ==
  (state = TLV_STATE_INITIALIZED /\ last.op \in CompletingOps /\ last.ret = TLV_OK)
  => MediaAgrees

\* The valid index entries of the tags other than t in context c, without
\* their slots and addresses (a commit that compacts the store moves both).
LiveOthers(c, t) ==
  {[tag |-> c.index[i].tag, flags |-> c.index[i].flags, version |-> c.index[i].version] :
     i \in {j \in 1..TLV_MAX_TAG_COUNT : IsLive(c.index[j]) /\ c.index[j].tag # t}}
\* The call on the write session of handle that returned r left the entries
\* of the other tags alone.
OthersKept(r, handle) ==
  LiveOthers(r.c, streams[handle_to_index(handle)].tag)
    = LiveOthers(Cur, streams[handle_to_index(handle)].tag)

\* C35: committing or aborting the write session of a tag T changes the
\* index entry of no tag other than T, whatever ran between its
\* tlv_write_begin and now (a delete of T, writes of other tags, a
\* defragment).
C35_SessionTouchesOwnTagOnly ==
  (state = TLV_STATE_INITIALIZED /\ ptrs)
  => \A handle \in Handles :
       streams[handle_to_index(handle)].state = TLV_STREAM_STATE_WRITING
       => /\ OthersKept(tlv_write_end(Cur, handle), handle)
          /\ OthersKept(tlv_write_abort(Cur, handle), handle)

\* A block of size bytes at addr lies in the data region.
InDataRegion(addr, size) == addr >= TLV_DATA_ADDR /\ addr + size <= TLV_BACKUP_ADDR

\* C36: every address the allocator hands out and every block write lies in
\* the data region [TLV_DATA_ADDR, TLV_BACKUP_ADDR): the block that a
\* tlv_write writes and the block that a tlv_write_begin reserves, also
\* after a defragment of a store with no live tag.
C36_BlocksInDataRegion ==
  (state = TLV_STATE_INITIALIZED /\ ptrs)
  => /\ \A t \in SchemaTags : \A d \in PayloadsOf(t) :
          LET p == WritePlace(Cur, t, Len(d)) IN
          p.ret = TLV_OK => InDataRegion(p.target_addr, TLV_BLOCK_SIZE(Len(d)))
     /\ \A t \in SchemaTags : \A n \in 1..get_meta(t).max_length :
          LET b == tlv_write_begin(Cur, t, n) IN
          b.ret # TLV_STREAM_INVALID_HANDLE
          => InDataRegion(b.c.streams[handle_to_index(b.ret)].data_addr, TLV_BLOCK_SIZE(n))

\* The context of an API call during which the power is lost at the k-th
\* port call, and whether the call that ended in context c got that far.
Halt(k) == [Cur EXCEPT !.f = -k]
Halted(c) == c.f < 0 /\ c.n >= -c.f
\* The context after power-up on the media of context c and tlv_init.
RebootOn(c) == tlv_init(PowerUp(c.fram)).c
\* next_free_addr of context c is not below the end of a block that a valid
\* index entry points at.
CoversLiveBlocks(c) ==
  \A i \in 1..TLV_MAX_TAG_COUNT :
    IsLive(c.index[i])
    => c.header.next_free_addr
         >= c.index[i].data_addr
            + TLV_BLOCK_SIZE(ReadHeader(c.fram, c.index[i].data_addr).length)
\* A restart now gives the store that is in service.
Settled ==
  LET b == RebootOn(Cur) IN
  /\ b.state = TLV_STATE_INITIALIZED
  /\ \A t \in SchemaTags : ReadIn(b, t) = ReadNow(t)
  /\ CoversLiveBlocks(b)
\* The store b found after the power was lost inside tlv_write(t, d).
SurvivedWrite(b, t, d) ==
  /\ ReadIn(b, t) \in {ReadNow(t), [ret |-> TLV_OK, data |-> d]}
  /\ \A u \in SchemaTags \ {t} : ReadIn(b, u) = ReadNow(u)
  /\ CoversLiveBlocks(b)

\* C37: when the power is lost at any point inside tlv_write(T, V), the
\* next tlv_init finds a store in which T reads its value of before or V,
\* every other tag reads what it read, and next_free_addr is not below the
\* end of a block that a valid index entry points at.
C37_PowerLossInWrite ==
  (state = TLV_STATE_INITIALIZED /\ ptrs /\ Settled)
  => \A t \in SchemaTags : \A d \in PayloadsOf(t) : \A k \in 1..MaxFaultAt :
       LET w == tlv_write(Halt(k), t, d) IN
       Halted(w.c) => SurvivedWrite(RebootOn(w.c), t, d)

\* The subtractions from used_space that the next call would make, each with
\* the value of used_space it is made from.  tlv_write(t, d) subtracts the
\* size of the old block: from the value at the call when it updates in
\* place, from the value after the allocation when it relocates.
WriteFits(t, d) ==
  LET p == WritePlace(Cur, t, Len(d)) IN
  (p.ret = TLV_OK /\ p.idx # 0)
  => p.old_block_size
       <= (IF p.need_add_index THEN p.c.header.used_space ELSE header.used_space)
\* tlv_delete(t) subtracts the size of the block of the entry it found.
DeleteFits(t) ==
  LET idx == tlv_index_find(Cur, t) IN
  tlv_delete(Cur, t).ret = TLV_OK
  => TLV_BLOCK_SIZE(ReadHeader(fram, index[idx].data_addr).length) <= header.used_space
\* tlv_write_end subtracts old_block_size of the session when the entry the
\* session replaces is still valid.
EndFits(handle) ==
  LET h == streams[handle_to_index(handle)] IN
  (/\ validate_and_get_handle(Cur, handle, TLV_STREAM_STATE_WRITING) >= 0
   /\ h.processed_len = h.total_len
   /\ h.old_index # 0
   /\ HasValid(index[h.old_index].flags))
  => h.old_block_size <= header.used_space

\* C38: no subtraction from used_space (update in place, relocation,
\* delete, tlv_write_end) takes more than the current value, also after
\* the rollbacks and aborts of interleaved write sessions.
C38_UsedSpaceNoUnderflow ==
  (state = TLV_STATE_INITIALIZED /\ ptrs)
  => /\ \A t \in SchemaTags : /\ DeleteFits(t)
                              /\ \A d \in PayloadsOf(t) : WriteFits(t, d)
     /\ \A handle \in Handles : EndFits(handle)

\* The slots of the pool that are taken in context c.
Busy(c) == {i \in StreamSlots : c.streams[i].state # TLV_STREAM_STATE_IDLE}
\* A begin that returned no handle left every slot as it was.
BeginKeepsPool(b) == b.ret = TLV_STREAM_INVALID_HANDLE => b.c.streams = streams
\* An end or abort that succeeded on handle freed the slot of the handle,
\* which was taken, and no other.
EndFreesSlot(r, handle) ==
  r.ret = TLV_OK
  => /\ handle_to_index(handle) \in Busy(Cur)
     /\ r.c.streams = [streams EXCEPT ![handle_to_index(handle)] = ZeroStream]
\* Tag t has a valid entry that points at a block of t.
Streamable(t) ==
  LET idx == tlv_index_find(Cur, t) IN
  idx # 0 /\ ReadHeader(fram, index[idx].data_addr).tag = t
\* With a slot idle, a begin does not fail for want of a handle: the read
\* session of a streamable tag opens, and the write session opens when the
\* block can be placed.
BeginObtainsHandle ==
  /\ find_free_stream_handle(Cur).ret \in Handles
  /\ \A t \in SchemaTags : Streamable(t) => tlv_read_begin(Cur, t).ret \in Handles
  /\ \A t \in SchemaTags : \A n \in 1..get_meta(t).max_length :
       WritePlace(find_free_stream_handle(Cur).c, t, n).ret = TLV_OK
       => tlv_write_begin(Cur, t, n).ret \in Handles

\* C39: stream sessions do not leak pool slots.  A tlv_write_begin or
\* tlv_read_begin that fails, with or without a port failure, leaves the
\* pool as it was; a successful tlv_write_end, tlv_read_end, tlv_write_abort
\* or tlv_read_abort frees exactly the slot of its handle; and when a slot
\* is idle, in particular once every session has been ended or aborted, a
\* new begin obtains a handle.
C39_NoLeakedSlots ==
  (state = TLV_STATE_INITIALIZED /\ ptrs)
  => /\ \A f \in 0..MaxFaultAt : \A t \in SchemaTags :
          /\ BeginKeepsPool(tlv_read_begin(Ctx(f), t))
          /\ \A n \in 1..get_meta(t).max_length :
               BeginKeepsPool(tlv_write_begin(Ctx(f), t, n))
     /\ \A f \in 0..MaxFaultAt : \A handle \in Handles :
          /\ EndFreesSlot(tlv_write_end(Ctx(f), handle), handle)
          /\ EndFreesSlot(tlv_read_end(Ctx(f), handle), handle)
          /\ EndFreesSlot(tlv_write_abort(Ctx(f), handle), handle)
          /\ EndFreesSlot(tlv_read_abort(Ctx(f), handle), handle)
     /\ Busy(Cur) # StreamSlots => BeginObtainsHandle
\* A session was ended or aborted, every slot of the pool is idle again,
\* and the next begin of a read session obtains a handle.
C39_Witness ==
  /\ state = TLV_STATE_INITIALIZED
  /\ last.op \in {"write_end", "read_end", "write_abort", "read_abort"}
  /\ last.ret = TLV_OK
  /\ Busy(Cur) = {}
  /\ \E t \in SchemaTags : tlv_read_begin(Cur, t).ret \in Handles
====
